---- MODULE Spec2Model ----
(***************************************************************************)
(* Composable allocators of gregjm (polymorphic-allocator): StackAllocator, *)
(* GlobalAllocator, FallbackAllocator, SegregatingAllocator, PoolAllocator. *)
(* One allocator instance is under test in every behaviour (kind); a client *)
(* issues allocate / reallocate / deallocate / deallocate_all calls.        *)
(* Addresses are integers; the sizes of the source are scaled down.         *)
(***************************************************************************)
EXTENDS Integers, Naturals, Sequences, FiniteSets, TLC

----------------------------------------------------------------------------
(* Bounds of the model *)

\* capacity N of the StackAllocator<N> under test
StackN == 5
\* capacity N of the StackAllocator<N> that is a child of a composite
ChildN == 2
\* request sizes are 0..MaxReq (0..PoolReq on a PoolAllocator)
MaxReq == 2
PoolReq == 3
\* alignments are 2^0 .. 2^MaxAlignLog
MaxAlignLog == 1
\* the client of a StackAllocator holds at most MaxLive blocks at a time,
\* the client of another allocator at most MaxHeld; a call that would raise
\* the live counter of a stack beyond that number is not issued
MaxLive == 3
MaxHeld == 2
\* number of cells of the system heap (PoolCells under a PoolAllocator)
HeapSlots == 2
PoolCells == 4
\* a PoolAllocator is not asked for more than MaxPools pools
MaxPools == 2
\* width of std::size_t in bits (64 in the source, scaled)
SizeBits == 4
\* addresses behind the end of a buffer that a pointer can take
OverrunRoom == 4
\* threads that call one allocator, the blocks they hold together and the
\* sizes they ask for
NThreads == 2
ThreadLive == 2
ThreadReq == 1
\* capacity N of the StackAllocator<N> that threads share
ThreadN == 2
\* elements added to a FibonacciHeap, the largest of them, and the longest
\* list that one insert takes
HeapMax == 5
MaxVal == 2
InsertLen == 2
\* the heap of pools on its own: capacity of a pool, number of pools, the
\* blocks the client holds (and the most a live counter is raised to), and
\* the distance between two pools
HeapPoolSize == 3
HeapPools == 4
HeapLive == 5
PoolStride == 8
\* the set on its own: the keys are 0..MaxKey
MaxKey == 3

----------------------------------------------------------------------------
(* Layout *)

\* alignas(64) std::array<std::uint8_t, N> memory_: the arena of the
\* standalone stack starts at an address aligned for every alignment used
StackBase == 8
\* first address of the system heap
HeapBase == 20
\* template parameter PoolSize of PoolAllocator (scaled)
PoolSize == 1
\* bytes of the fields that follow memory_ in a StackAllocator (scaled)
PoolFields == 1
\* sizeof(StackAllocator<PoolSize>): the arena, then the fields
sizeof_PoolT == PoolSize + PoolFields
\* sizeof(OwnerT), an element of the vector of pools (scaled)
sizeof_OwnerT == 1

RECURSIVE Pow2(_)
Pow2(k) == IF k = 0 THEN 1 ELSE 2 * Pow2(k - 1)

WordMod == Pow2(SizeBits)
SIZE_MAX == WordMod - 1
Alignments == { Pow2(k) : k \in 0..MaxAlignLog }
Sizes == 0..MaxReq
\* bytes of a cell of the system heap: a cell holds one pool
SlotSpan == sizeof_PoolT
HeapCells(k) == IF k = "pool" THEN PoolCells ELSE HeapSlots
HeapAddrs(k) == { HeapBase + c * SlotSpan : c \in 0..(HeapCells(k) - 1) }
AddrLimit ==
    HeapBase + (IF PoolCells > HeapSlots THEN PoolCells ELSE HeapSlots) * SlotSpan
    + OverrunRoom
Addrs == 1..AddrLimit

Min(a, b) == IF a < b THEN a ELSE b
Max(a, b) == IF a < b THEN b ELSE a

\* unsigned std::size_t arithmetic
SzAdd(a, b) == (a + b) % WordMod
SzSub(a, b) == (a + WordMod - (b % WordMod)) % WordMod

----------------------------------------------------------------------------
(* MemoryBlock *)

MemoryBlock(memory, size) == [memory |-> memory, size |-> size]
NullBlock == MemoryBlock(0, 0)
\* the bytes of a block
Range(b) == b.memory..(b.memory + b.size - 1)

Ok == "ok"
BadAllocationException == "BadAllocationException"
NotOwnedException == "NotOwnedException"

\* std::memcpy(dst, src, n) on the byte store
NoCopy == [dst |-> 0, src |-> 0, n |-> 0]
memcpy(m, dst, src, n) ==
    IF n = 0 THEN m ELSE
    [a \in DOMAIN m |->
        IF a >= dst /\ a < dst + n /\ (src + (a - dst)) \in DOMAIN m
        THEN m[src + (a - dst)] ELSE m[a]]

----------------------------------------------------------------------------
(* StackAllocator<N> *)

StackAllocator(base, N) ==
    [begin |-> base, N |-> N, stack_pointer_ |-> base,
     allocated_ |-> 0, max_size_ |-> N]

aligned_offset(size, alignment) ==
    IF size % alignment = 0 THEN 0 ELSE alignment - (size % alignment)

align_top(s, alignment) ==
    [s EXCEPT !.max_size_ =
                  SzSub(@, aligned_offset(s.stack_pointer_, alignment)),
              !.stack_pointer_ =
                  @ + aligned_offset(s.stack_pointer_, alignment)]

push(s, size) ==
    [s EXCEPT !.max_size_ = SzSub(@, size), !.stack_pointer_ = @ + size]

\* a pop that moves the top pointer and credits nothing
pop_keeps_max_size(s, size) == [s EXCEPT !.stack_pointer_ = @ - size]

pop(s, size) ==
    [s EXCEPT !.max_size_ = SzAdd(@, size), !.stack_pointer_ = @ - size]

Stack_max_size_locked(s) == s.max_size_

Stack_owns_locked(s, block) ==
    block.memory >= s.begin /\ block.memory < s.stack_pointer_

\* allocate_locked after align_top: t is the stack with its top aligned
allocate_at_top(t, size) ==
    [res |-> Ok, s |-> [push(t, size) EXCEPT !.allocated_ = SzAdd(@, 1)],
     block |-> MemoryBlock(t.stack_pointer_, size)]

Stack_allocate_locked(s, size, alignment) ==
    IF SzAdd(size, aligned_offset(size, alignment)) > Stack_max_size_locked(s)
    THEN [res |-> BadAllocationException, s |-> s, block |-> NullBlock]
    ELSE allocate_at_top(align_top(s, alignment), size)

\* deallocate_locked after the pop: --allocated_, and the reset at zero
count_down(p) ==
    IF SzSub(p.allocated_, 1) = 0
    THEN [p EXCEPT !.allocated_ = 0, !.stack_pointer_ = p.begin,
                   !.max_size_ = p.N]
    ELSE [p EXCEPT !.allocated_ = SzSub(@, 1)]

\* a deallocate_locked that pops whatever block it is given
deallocate_locked_always_pops(s, block) ==
    IF ~Stack_owns_locked(s, block)
    THEN [res |-> NotOwnedException, s |-> s]
    ELSE [res |-> Ok, s |-> count_down(pop(s, block.size))]

Stack_deallocate_locked(s, block) ==
    IF ~Stack_owns_locked(s, block)
    THEN [res |-> NotOwnedException, s |-> s]
    ELSE [res |-> Ok,
          s |-> count_down(IF block.memory + block.size = s.stack_pointer_
                           THEN pop(s, block.size) ELSE s)]

\* reallocate_impl, the block not at the top: d is the outcome of
\* deallocate_locked(block), realloc_block the block allocate_locked gave
reallocate_moved(d, realloc_block, block, min_size) ==
    [res |-> d.res, s |-> d.s, block |-> realloc_block,
     cp |-> [dst |-> realloc_block.memory, src |-> block.memory,
             n |-> min_size]]

\* a is the outcome of allocate_locked(size, alignment)
reallocate_move(a, block, min_size) ==
    IF a.res # Ok
    THEN [res |-> a.res, s |-> a.s, block |-> NullBlock, cp |-> NoCopy]
    ELSE reallocate_moved(Stack_deallocate_locked(a.s, block), a.block,
                          block, min_size)

Stack_reallocate_impl(s, block, size, alignment) ==
    IF ~Stack_owns_locked(s, block)
    THEN [res |-> NotOwnedException, s |-> s, block |-> NullBlock,
          cp |-> NoCopy]
    ELSE IF block.memory + block.size = s.stack_pointer_
    THEN [res |-> Ok,
          s |-> IF size < block.size THEN pop(s, block.size - size)
                ELSE push(s, size - block.size),
          block |-> MemoryBlock(block.memory, size), cp |-> NoCopy]
    ELSE reallocate_move(Stack_allocate_locked(s, size, alignment), block,
                         Min(size, block.size))

\* a deallocate_all that leaves the top pointer where it is
deallocate_all_keeps_top(s) == s

Stack_deallocate_all_impl(s) == [s EXCEPT !.stack_pointer_ = s.begin]

----------------------------------------------------------------------------
(* The system heap: std::malloc, std::realloc, std::free.  The heap hands   *)
(* out chunks from cells of SlotSpan bytes; heap is the set of chunks that  *)
(* are live at the system layer.  Which free cell a call uses (0: the call  *)
(* returns a null pointer) is the environment's choice.  A request of 0     *)
(* bytes that succeeds reserves a chunk of one byte.                        *)

Chunk(ptr, size) == [memory |-> ptr, size |-> Max(size, 1)]

ChunkAt(hp, ptr) == { h \in hp : h.memory = ptr }

HeapFree(hp, a, size) ==
    /\ a >= HeapBase
    /\ (a - HeapBase) % SlotSpan = 0
    /\ size <= SlotSpan
    /\ ChunkAt(hp, a) = {}

malloc(hp, size, a) ==
    IF a = 0
    THEN [ptr |-> 0, heap |-> hp, feasible |-> TRUE]
    ELSE [ptr |-> a, heap |-> hp \cup { Chunk(a, size) },
          feasible |-> HeapFree(hp, a, size)]

\* freeing a pointer that is not a live chunk is undefined behaviour (ub)
free(hp, ptr) ==
    IF ChunkAt(hp, ptr) = {}
    THEN [heap |-> hp, ub |-> TRUE]
    ELSE [heap |-> hp \ ChunkAt(hp, ptr), ub |-> FALSE]

\* the size of the chunk at ptr
ChunkSize(hp, ptr) == (CHOOSE h \in ChunkAt(hp, ptr) : TRUE).size

\* std::realloc(ptr, size): a null result leaves the chunk alone, except that
\* for size 0 the implementation may free it (rz: glibc does); the caller
\* cannot tell the two apart.  A non-null result is the old address or
\* another free cell, holding the old bytes.
realloc(hp, m, ptr, size, a, rz) ==
    IF ChunkAt(hp, ptr) = {}
    THEN [ptr |-> 0, heap |-> hp, mem |-> m, ub |-> TRUE, feasible |-> TRUE]
    ELSE IF a = 0
    THEN [ptr |-> 0,
          heap |-> IF size = 0 /\ rz THEN hp \ ChunkAt(hp, ptr) ELSE hp,
          mem |-> m, ub |-> FALSE, feasible |-> (rz => size = 0)]
    ELSE [ptr |-> a,
          heap |-> (hp \ ChunkAt(hp, ptr)) \cup { Chunk(a, size) },
          mem |-> memcpy(m, a, ptr, Min(ChunkSize(hp, ptr), size)),
          ub |-> FALSE,
          feasible |-> ~rz /\ HeapFree(hp \ ChunkAt(hp, ptr), a, size)]

----------------------------------------------------------------------------
(* GlobalAllocator.  W is the record of the whole store: W.blocks_ is the   *)
(* registry, W.heap the system heap, W.mem the bytes.                       *)

\* allocate_impl after std::malloc: m is what malloc answered
allocate_registered(W, m, size) ==
    IF m.ptr = 0
    THEN [res |-> BadAllocationException, W |-> W, block |-> NullBlock,
          feasible |-> m.feasible]
    ELSE [res |-> Ok,
          W |-> [W EXCEPT !.heap = m.heap,
                          !.blocks_ = @ \cup { MemoryBlock(m.ptr, size) }],
          block |-> MemoryBlock(m.ptr, size), feasible |-> m.feasible]

Global_allocate_impl(W, size, a) ==
    allocate_registered(W, malloc(W.heap, size, a), size)

\* reallocate_impl after std::realloc: r is what realloc answered; the
\* handler returns block, the block it was given
reallocate_registered(W, r, block, size) ==
    IF r.ptr = 0
    THEN [res |-> BadAllocationException,
          W |-> [W EXCEPT !.heap = r.heap, !.ub = @ \/ r.ub],
          block |-> NullBlock, feasible |-> r.feasible]
    ELSE [res |-> Ok,
          W |-> [W EXCEPT !.heap = r.heap, !.mem = r.mem,
                          !.blocks_ = (@ \ { block })
                                      \cup { MemoryBlock(r.ptr, size) }],
          block |-> block, feasible |-> r.feasible]

Global_reallocate_impl(W, block, size, a, rz) ==
    IF block \notin W.blocks_
    THEN [res |-> NotOwnedException, W |-> W, block |-> NullBlock,
          feasible |-> TRUE]
    ELSE reallocate_registered(
             W, realloc(W.heap, W.mem, block.memory, size, a, rz), block, size)

\* deallocate_locked after the erase: f is the outcome of std::free
deallocate_freed(W, f, block) ==
    [res |-> Ok,
     W |-> [W EXCEPT !.blocks_ = @ \ { block }, !.heap = f.heap,
                     !.ub = @ \/ f.ub]]

Global_deallocate_locked(W, block) ==
    IF block \notin W.blocks_
    THEN [res |-> NotOwnedException, W |-> W]
    ELSE deallocate_freed(W, free(W.heap, block.memory), block)

RECURSIVE Global_deallocate_all_impl(_)
Global_deallocate_all_impl(W) ==
    IF W.blocks_ = {} THEN W
    ELSE Global_deallocate_all_impl(
             Global_deallocate_locked(W, CHOOSE b \in W.blocks_ : TRUE).W)

Global_max_size_impl(W) == SIZE_MAX

Global_owns_impl(W, block) == block \in W.blocks_

----------------------------------------------------------------------------
(* The stack child of a composite (and the stack under test): W.stk.        *)

InStack(W, r) ==
    [res |-> r.res, W |-> [W EXCEPT !.stk = r.s], block |-> r.block,
     feasible |-> TRUE]

Stack_allocate_impl(W, size, alignment) ==
    InStack(W, Stack_allocate_locked(W.stk, size, alignment))

\* r is the outcome of reallocate_impl; its std::memcpy acts on the bytes
InStackCopied(W, r) ==
    [res |-> r.res,
     W |-> [W EXCEPT !.stk = r.s,
                     !.mem = memcpy(@, r.cp.dst, r.cp.src, r.cp.n)],
     block |-> r.block, feasible |-> TRUE]

Stack_reallocate(W, block, size, alignment) ==
    InStackCopied(W, Stack_reallocate_impl(W.stk, block, size, alignment))

InStackFreed(W, r) == [res |-> r.res, W |-> [W EXCEPT !.stk = r.s]]

Stack_deallocate_impl(W, block) ==
    InStackFreed(W, Stack_deallocate_locked(W.stk, block))

\* std::memcpy(new_block.memory, block.memory, n) on the bytes of W
Copied(W, new_block, block, n) ==
    [W EXCEPT !.mem = memcpy(@, new_block.memory, block.memory, n)]

\* the end of a handler that moved a block: d is the outcome of the
\* deallocate of the old block, n that of the allocate of the new one
Moved(d, n) ==
    [res |-> d.res, W |-> d.W,
     block |-> IF d.res = Ok THEN n.block ELSE NullBlock,
     feasible |-> n.feasible]

----------------------------------------------------------------------------
(* FallbackAllocator<StackAllocator<N>, GlobalAllocator<>>                  *)

\* a call of a child as an instrumented child records it
ChildCall(who, r) == [who |-> who, res |-> r.res, block |-> r.block]

\* the outcome r of a handler with the calls of the children it made
Called(r, calls) ==
    [res |-> r.res, W |-> r.W, block |-> r.block, feasible |-> r.feasible,
     calls |-> calls]

\* allocate_impl, the handler of BadAllocationException: s is the outcome
\* of secondary().allocate
Fallback_allocate_caught(p, s) ==
    Called(s, << ChildCall("primary", p), ChildCall("secondary", s) >>)

\* a handler that lets the failure of the primary pass
allocate_primary_only(p, W, size, a) ==
    Called(p, << ChildCall("primary", p) >>)

Fallback_allocate_fallback(p, W, size, a) ==
    IF p.res = BadAllocationException
    THEN Fallback_allocate_caught(p, Global_allocate_impl(W, size, a))
    ELSE Called(p, << ChildCall("primary", p) >>)

Fallback_allocate_impl(W, size, alignment, a) ==
    Fallback_allocate_fallback(Stack_allocate_impl(W, size, alignment),
                               W, size, a)

\* n is the outcome of secondary().allocate
reallocate_to_secondary(n, block) ==
    IF n.res # Ok THEN n
    ELSE Moved(Stack_deallocate_impl(
                   Copied(n.W, n.block, block, block.size), block), n)

\* r is the outcome of primary().reallocate
reallocate_in_primary(r, block, size, a) ==
    IF r.res # BadAllocationException THEN r
    ELSE reallocate_to_secondary(Global_allocate_impl(r.W, size, a), block)

\* n is the outcome of primary().allocate, feasible what the realloc before
\* it asked of the environment
reallocate_to_primary(n, block, feasible) ==
    IF n.res # Ok THEN [n EXCEPT !.feasible = feasible]
    ELSE Moved(Global_deallocate_locked(
                   Copied(n.W, n.block, block, block.size), block),
               [n EXCEPT !.feasible = feasible])

\* r is the outcome of secondary().reallocate
reallocate_in_secondary(r, block, size, alignment) ==
    IF r.res # BadAllocationException THEN r
    ELSE reallocate_to_primary(Stack_allocate_impl(r.W, size, alignment),
                               block, r.feasible)

Fallback_reallocate_impl(W, block, size, alignment, a, rz) ==
    IF Stack_owns_locked(W.stk, block)
    THEN reallocate_in_primary(Stack_reallocate(W, block, size, alignment),
                               block, size, a)
    ELSE IF Global_owns_impl(W, block)
    THEN reallocate_in_secondary(
             Global_reallocate_impl(W, block, size, a, rz), block, size,
             alignment)
    ELSE [res |-> NotOwnedException, W |-> W, block |-> NullBlock,
          feasible |-> TRUE]

Fallback_deallocate_impl(W, block) ==
    IF Stack_owns_locked(W.stk, block) THEN Stack_deallocate_impl(W, block)
    ELSE IF Global_owns_impl(W, block) THEN Global_deallocate_locked(W, block)
    ELSE [res |-> NotOwnedException, W |-> W]

Fallback_deallocate_all_impl(W) ==
    Global_deallocate_all_impl(
        [W EXCEPT !.stk = Stack_deallocate_all_impl(@)])

Fallback_max_size_impl(W) ==
    Max(Stack_max_size_locked(W.stk), Global_max_size_impl(W))

Fallback_owns_impl(W, block) ==
    Stack_owns_locked(W.stk, block) \/ Global_owns_impl(W, block)

----------------------------------------------------------------------------
(* SegregatingAllocator<SegN, StackAllocator<N>, GlobalAllocator<>>:        *)
(* little() is the stack, big() the global allocator.                       *)

\* the threshold N of SegregatingAllocator<N, Little, Big> (scaled)
SegN == 1

Segregating_allocate_impl(W, size, alignment, a) ==
    IF size <= SegN THEN Stack_allocate_impl(W, size, alignment)
    ELSE Global_allocate_impl(W, size, a)

\* n is the outcome of big().allocate
little_to_big(n, block) ==
    IF n.res # Ok THEN n
    ELSE Moved(Stack_deallocate_impl(
                   Copied(n.W, n.block, block, block.size), block), n)

reallocate_from_little(W, block, size, alignment, a) ==
    IF size > SegN
    THEN little_to_big(Global_allocate_impl(W, size, a), block)
    ELSE Stack_reallocate(W, block, size, alignment)

\* n is the outcome of little().allocate; the handler then gives the old
\* block to little().deallocate
big_to_little(n, block, size) ==
    IF n.res # Ok THEN n
    ELSE Moved(Stack_deallocate_impl(
                   Copied(n.W, n.block, block, size), block), n)

reallocate_from_big(W, block, size, alignment, a, rz) ==
    IF size <= SegN
    THEN big_to_little(Stack_allocate_impl(W, size, alignment), block, size)
    ELSE Global_reallocate_impl(W, block, size, a, rz)

Segregating_reallocate_impl(W, block, size, alignment, a, rz) ==
    IF block.size <= SegN
    THEN reallocate_from_little(W, block, size, alignment, a)
    ELSE reallocate_from_big(W, block, size, alignment, a, rz)

Segregating_deallocate_impl(W, block) ==
    IF block.size <= SegN THEN Stack_deallocate_impl(W, block)
    ELSE Global_deallocate_locked(W, block)

Segregating_deallocate_all_impl(W) ==
    [Global_deallocate_all_impl(W) EXCEPT
        !.stk = Stack_deallocate_all_impl(@)]

Segregating_max_size_impl(W) == Max(SegN, Global_max_size_impl(W))

Segregating_owns_impl(W, block) ==
    IF block.size <= SegN THEN Stack_owns_locked(W.stk, block)
    ELSE Global_owns_impl(W, block)

----------------------------------------------------------------------------
(* PoolAllocator<PoolSize, GlobalAllocator<>>.  W.pools_ is the vector of   *)
(* pools in heap order, each entry the StackAllocator<PoolSize> it points   *)
(* to (the pool stands at the address .begin); W.vec is the storage of the  *)
(* vector, taken from the backing allocator like the pools themselves.      *)
(* Positions are counted from 1; 0 stands for pools_.end().                 *)

NoVec == [memory |-> 0, cap |-> 0]

PoolAllocatorComparator(lhs, rhs) ==
    Stack_max_size_locked(lhs) < Stack_max_size_locked(rhs)

swap(pools, i, j) == [pools EXCEPT ![i] = pools[j], ![j] = pools[i]]

left_child(element) == element + (element - 1) + 1
right_child(element) == element + (element - 1) + 2
parent(element) == element - ((element - 1) + 2) \div 2

\* one round of the loop of fix_down: left and right are the positions of
\* the children of current, 0 for pools_.end()
RECURSIVE fix_down_from(_, _, _)
fix_down_step(pools, size, current, left, right) ==
    IF right # 0
    THEN IF Stack_max_size_locked(pools[left])
                < Stack_max_size_locked(pools[right])
         THEN IF size >= Stack_max_size_locked(pools[right]) THEN pools
              ELSE fix_down_from(swap(pools, right, current), size, right)
         ELSE IF size >= Stack_max_size_locked(pools[left]) THEN pools
              ELSE fix_down_from(swap(pools, left, current), size, left)
    ELSE IF left # 0
    THEN IF size >= Stack_max_size_locked(pools[left]) THEN pools
         ELSE fix_down_from(swap(pools, current, left), size, left)
    ELSE pools

left_child_or(pools, element) ==
    IF left_child(element) <= Len(pools) THEN left_child(element) ELSE 0

right_child_or(pools, element) ==
    IF right_child(element) <= Len(pools) THEN right_child(element) ELSE 0

fix_down_from(pools, size, current) ==
    fix_down_step(pools, size, current, left_child_or(pools, current),
                  right_child_or(pools, current))

fix_down(pools) ==
    fix_down_from(pools, Stack_max_size_locked(pools[1]), 1)

\* a fix_up that leaves the vector as it is
fix_up_nowhere(pools, element) == pools

RECURSIVE fix_up_from(_, _, _)
fix_up_from(pools, size, element) ==
    IF element <= 1 THEN pools
    ELSE IF Stack_max_size_locked(pools[parent(element)]) < size
    THEN fix_up_from(swap(pools, element, parent(element)), size,
                     parent(element))
    ELSE pools

fix_up(pools, element) ==
    fix_up_from(pools, Stack_max_size_locked(pools[element]), element)

\* std::push_heap: the last element rises while its parent compares less
RECURSIVE push_heap_from(_, _)
push_heap_from(pools, hole) ==
    IF hole > 1 /\ PoolAllocatorComparator(pools[hole \div 2], pools[hole])
    THEN push_heap_from(swap(pools, hole, hole \div 2), hole \div 2)
    ELSE pools

push_heap(pools) == push_heap_from(pools, Len(pools))

\* std::find_if: the first position whose pool owns the block
get_owner_iter(pools, block) ==
    IF \A i \in 1..Len(pools) : ~Stack_owns_locked(pools[i], block) THEN 0
    ELSE CHOOSE i \in 1..Len(pools) :
             /\ Stack_owns_locked(pools[i], block)
             /\ \A j \in 1..(i - 1) : ~Stack_owns_locked(pools[j], block)

\* emplace_back on a full vector after the allocate of the new storage (n):
\* the elements move and the old storage goes back to the backing allocator
emplace_grown(W, n, pool, cap) ==
    IF n.res # Ok
    THEN [res |-> n.res, W |-> W, feasible |-> n.feasible,
          calls |-> << ChildCall("backing", n) >>]
    ELSE [res |-> Ok,
          W |-> [(IF W.vec.cap = 0 THEN n.W
                  ELSE Global_deallocate_locked(
                           n.W, MemoryBlock(W.vec.memory,
                                            W.vec.cap * sizeof_OwnerT)).W)
                 EXCEPT !.pools_ = Append(@, pool),
                        !.vec = [memory |-> n.block.memory, cap |-> cap]],
          feasible |-> n.feasible,
          calls |-> << ChildCall("backing", n) >>]

\* pools_.emplace_back(pool, deleter): a full vector first takes new storage
\* from the backing allocator (twice the capacity, 1 for an empty vector)
emplace_back(W, pool, a, cap) ==
    IF Len(W.pools_) < W.vec.cap
    THEN [res |-> Ok, W |-> [W EXCEPT !.pools_ = Append(@, pool)],
          feasible |-> TRUE, calls |-> << >>]
    ELSE emplace_grown(W, Global_allocate_impl(W, cap * sizeof_OwnerT, a),
                       pool, cap)

\* allocate_new after the emplace_back (e): std::push_heap.  made are the
\* calls of the backing allocator before the emplace_back
allocate_new_pushed(e, allocated_block, feasible, made) ==
    IF e.res # Ok
    THEN [res |-> e.res, W |-> e.W, block |-> NullBlock,
          feasible |-> feasible /\ e.feasible, calls |-> made \o e.calls]
    ELSE [res |-> Ok, W |-> [e.W EXCEPT !.pools_ = push_heap(@)],
          block |-> allocated_block, feasible |-> feasible /\ e.feasible,
          calls |-> made \o e.calls]

\* allocate_new after pool->allocate (p) in the pool built in W
allocate_new_in_pool(W, p, a2, feasible, made) ==
    IF p.res # Ok
    THEN [res |-> p.res, W |-> W, block |-> NullBlock, feasible |-> feasible,
          calls |-> made]
    ELSE allocate_new_pushed(
             emplace_back(W, p.s, a2,
                          IF W.vec.cap = 0 THEN 1 ELSE 2 * W.vec.cap),
             p.block, feasible, made)

\* allocate_new after alloc_.allocate(sizeof(PoolT), alignof(PoolT)) (g)
allocate_new_pool(g, count, alignment, a2) ==
    IF g.res # Ok THEN Called(g, << ChildCall("backing", g) >>)
    ELSE allocate_new_in_pool(
             g.W,
             Stack_allocate_locked(StackAllocator(g.block.memory, PoolSize),
                                   count, alignment),
             a2, g.feasible, << ChildCall("backing", g) >>)

allocate_new(W, count, alignment, a, a2) ==
    allocate_new_pool(Global_allocate_impl(W, sizeof_PoolT, a), count,
                      alignment, a2)

\* allocate_impl after pools_.front()->allocate (r)
allocate_from_front(W, r, size, alignment, a, a2) ==
    IF r.res = Ok
    THEN [res |-> Ok,
          W |-> [W EXCEPT !.pools_ = fix_down([@ EXCEPT ![1] = r.s])],
          block |-> r.block, feasible |-> TRUE]
    ELSE allocate_new(W, size, alignment, a, a2)

Pool_allocate_impl(W, size, alignment, a, a2) ==
    IF size > PoolSize
    THEN [res |-> BadAllocationException, W |-> W, block |-> NullBlock,
          feasible |-> TRUE]
    ELSE IF W.pools_ = << >>
    THEN allocate_new(W, size, alignment, a, a2)
    ELSE allocate_from_front(
             W, Stack_allocate_locked(W.pools_[1], size, alignment), size,
             alignment, a, a2)

\* the position of the pool standing at address begin
PoolAt(pools, begin) ==
    CHOOSE i \in 1..Len(pools) : pools[i].begin = begin

\* owner.deallocate(block): owner is a reference to the pool itself
owner_deallocate(W, j, block) ==
    [W EXCEPT !.pools_[j] = Stack_deallocate_locked(@, block).s]

\* reallocate_impl, the handler of BadAllocationException, after the
\* allocate (n).  owner_iter is a position in the vector: after the allocate
\* the position may hold another pool, and if the vector took new storage
\* (storage: the storage before) the iterator dangles; that is undefined
\* behaviour, the run ends there and fix_up is not applied.  made is the
\* call of owner.reallocate.
reallocate_elsewhere(n, block, begin, owner_iter, storage, made) ==
    IF n.res # Ok THEN Called(n, made \o << ChildCall("allocate", n) >>)
    ELSE [res |-> Ok,
          W |-> IF n.W.vec.memory # storage
                THEN [owner_deallocate(
                          Copied(n.W, n.block, block, block.size),
                          PoolAt(n.W.pools_, begin), block)
                      EXCEPT !.ub = TRUE]
                ELSE [owner_deallocate(
                          Copied(n.W, n.block, block, block.size),
                          PoolAt(n.W.pools_, begin), block)
                      EXCEPT !.pools_ = fix_up(@, owner_iter)],
          block |-> n.block, feasible |-> n.feasible,
          calls |-> made \o << ChildCall("allocate", n) >>]

\* reallocate_impl after owner.reallocate (r)
reallocate_in_owner(W, r, owner_iter, block, size, alignment, a, a2) ==
    IF r.res # BadAllocationException
    THEN [res |-> r.res,
          W |-> [W EXCEPT !.pools_[owner_iter] = r.s,
                          !.mem = memcpy(@, r.cp.dst, r.cp.src, r.cp.n)],
          block |-> r.block, feasible |-> TRUE,
          calls |-> << ChildCall("owner", r) >>]
    ELSE reallocate_elsewhere(Pool_allocate_impl(W, size, alignment, a, a2),
                              block, W.pools_[owner_iter].begin, owner_iter,
                              W.vec.memory, << ChildCall("owner", r) >>)

reallocate_owned(W, owner_iter, block, size, alignment, a, a2) ==
    IF owner_iter = 0
    THEN [res |-> NotOwnedException, W |-> W, block |-> NullBlock,
          feasible |-> TRUE]
    ELSE reallocate_in_owner(
             W, Stack_reallocate_impl(W.pools_[owner_iter], block, size,
                                      alignment),
             owner_iter, block, size, alignment, a, a2)

Pool_reallocate_impl(W, block, size, alignment, a, a2) ==
    reallocate_owned(W, get_owner_iter(W.pools_, block), block, size,
                     alignment, a, a2)

deallocate_owned(W, owner_iter, block) ==
    IF owner_iter = 0
    THEN [res |-> NotOwnedException, W |-> W]
    ELSE [res |-> Ok,
          W |-> [owner_deallocate(W, owner_iter, block)
                 EXCEPT !.pools_ = fix_up(@, owner_iter)]]

Pool_deallocate_impl(W, block) ==
    deallocate_owned(W, get_owner_iter(W.pools_, block), block)

Pool_deallocate_all_impl(W) ==
    [W EXCEPT !.pools_ =
        [i \in 1..Len(@) |-> Stack_deallocate_all_impl(@[i])]]

Pool_max_size_impl(W) == PoolSize

Pool_owns_impl(W, block) ==
    \E i \in 1..Len(W.pools_) : Stack_owns_locked(W.pools_[i], block)

----------------------------------------------------------------------------
(* The protocol of PolymorphicAllocator, dispatched on the allocator under  *)
(* test.                                                                    *)

Kinds == { "stack", "global", "fallback", "segregating", "pool" }

allocate(W, size, alignment, a, a2) ==
    CASE W.kind = "stack" -> Stack_allocate_impl(W, size, alignment)
      [] W.kind = "global" -> Global_allocate_impl(W, size, a)
      [] W.kind = "fallback" -> Fallback_allocate_impl(W, size, alignment, a)
      [] W.kind = "segregating" ->
             Segregating_allocate_impl(W, size, alignment, a)
      [] W.kind = "pool" -> Pool_allocate_impl(W, size, alignment, a, a2)

reallocate(W, block, size, alignment, a, a2, rz) ==
    CASE W.kind = "stack" -> Stack_reallocate(W, block, size, alignment)
      [] W.kind = "global" -> Global_reallocate_impl(W, block, size, a, rz)
      [] W.kind = "fallback" ->
             Fallback_reallocate_impl(W, block, size, alignment, a, rz)
      [] W.kind = "segregating" ->
             Segregating_reallocate_impl(W, block, size, alignment, a, rz)
      [] W.kind = "pool" ->
             Pool_reallocate_impl(W, block, size, alignment, a, a2)

deallocate(W, block) ==
    CASE W.kind = "stack" -> Stack_deallocate_impl(W, block)
      [] W.kind = "global" -> Global_deallocate_locked(W, block)
      [] W.kind = "fallback" -> Fallback_deallocate_impl(W, block)
      [] W.kind = "segregating" -> Segregating_deallocate_impl(W, block)
      [] W.kind = "pool" -> Pool_deallocate_impl(W, block)

deallocate_all(W) ==
    CASE W.kind = "stack" -> [W EXCEPT !.stk = Stack_deallocate_all_impl(@)]
      [] W.kind = "global" -> Global_deallocate_all_impl(W)
      [] W.kind = "fallback" -> Fallback_deallocate_all_impl(W)
      [] W.kind = "segregating" -> Segregating_deallocate_all_impl(W)
      [] W.kind = "pool" -> Pool_deallocate_all_impl(W)

max_size(W) ==
    CASE W.kind = "stack" -> Stack_max_size_locked(W.stk)
      [] W.kind = "global" -> Global_max_size_impl(W)
      [] W.kind = "fallback" -> Fallback_max_size_impl(W)
      [] W.kind = "segregating" -> Segregating_max_size_impl(W)
      [] W.kind = "pool" -> Pool_max_size_impl(W)

owns(W, block) ==
    CASE W.kind = "stack" -> Stack_owns_locked(W.stk, block)
      [] W.kind = "global" -> Global_owns_impl(W, block)
      [] W.kind = "fallback" -> Fallback_owns_impl(W, block)
      [] W.kind = "segregating" -> Segregating_owns_impl(W, block)
      [] W.kind = "pool" -> Pool_owns_impl(W, block)

----------------------------------------------------------------------------
(* FibonacciHeap *)

nullptr == 0

\* struct Node: owns its leftmost child and its right sibling
Node(data) ==
    [data |-> data, parent |-> nullptr, child |-> nullptr, left |-> nullptr,
     right |-> nullptr, rank |-> 0, is_marked |-> FALSE]

\* the comparators of the tests: std::less, and a greater-than lambda
Compares == { "less", "greater" }

invoke(comparator, lhs, rhs) ==
    IF comparator = "less" THEN lhs < rhs ELSE lhs > rhs

\* a default-constructed heap; node is the storage that alloc_ hands out,
\* added (not in the source) lists the elements added, in order
FibonacciHeap(comparator) ==
    [node |-> << >>, root_ |-> nullptr, comparator_ |-> comparator,
     size_ |-> 0, added |-> << >>]

gt(h, lhs, rhs) == invoke(h.comparator_, rhs, lhs)

lt(h, lhs, rhs) == invoke(h.comparator_, lhs, rhs)

\* the branch of meld_trees that makes tree the leftmost child of head
meld_under(node, head, tree) ==
    [n \in DOMAIN node |->
        IF n = tree
        THEN [node[n] EXCEPT
                 !.right = IF node[head].child # nullptr
                           THEN node[head].child ELSE @,
                 !.parent = head]
        ELSE IF n = head
        THEN [node[n] EXCEPT !.child = tree, !.rank = @ + 1]
        ELSE IF n = node[head].child
        THEN [node[n] EXCEPT !.left = tree]
        ELSE node[n]]

\* the nodes after the meld, and the new root of the melded tree
meld_trees(h, first, second) ==
    IF first = nullptr /\ second = nullptr
    THEN [node |-> h.node, head |-> nullptr]
    ELSE IF first = nullptr
    THEN [node |-> h.node, head |-> second]
    ELSE IF second = nullptr
    THEN [node |-> h.node, head |-> first]
    ELSE IF lt(h, h.node[first].data, h.node[second].data)
    THEN [node |-> meld_under(h.node, second, first), head |-> second]
    ELSE [node |-> meld_under(h.node, first, second), head |-> first]

Melded(h, m) ==
    [h EXCEPT !.node = m.node, !.root_ = m.head, !.size_ = @ + 1]

push_node(h, node) == Melded(h, meld_trees(h, node, h.root_))

\* the heap with a fresh node that holds value, at address Len(h.node) + 1
construct_node(h, value) ==
    [h EXCEPT !.node = Append(@, Node(value)), !.added = Append(@, value)]

Fib_push(h, value) == push_node(construct_node(h, value), Len(h.node) + 1)

Fib_emplace(h, value) == push_node(construct_node(h, value), Len(h.node) + 1)

RECURSIVE Fib_insert(_, _)
Fib_insert(h, ilist) ==
    IF ilist = << >>
    THEN h
    ELSE Fib_insert(Fib_push(h, Head(ilist)), Tail(ilist))

Fib_size(h) == h.size_

Fib_empty(h) == Fib_size(h) = 0

\* defined when root_ is not null
Fib_top(h) == h.node[h.root_].data

\* an iterator at current; visited (not in the source) lists the nodes it
\* has stood on, begun tells begin() from a default-constructed iterator
Iterator(current, trail, begun) ==
    [current_ |-> current, begun |-> begun,
     visited |-> IF current = nullptr THEN trail ELSE Append(trail, current)]

Fib_end == Iterator(nullptr, << >>, FALSE)

\* defined when root_ is not null
Fib_begin(h) == Iterator(h.root_, << >>, TRUE)

\* the do-while of operator++: up to the first ancestor with a right sibling
RECURSIVE next_highest_sibling(_, _)
next_highest_sibling(node, current) ==
    IF node[current].parent = nullptr
    THEN nullptr
    ELSE IF node[node[current].parent].right = nullptr
    THEN next_highest_sibling(node, node[current].parent)
    ELSE node[node[current].parent].right

\* operator++ that never descends to the child
increment_no_descent(node, current) ==
    IF node[current].right # nullptr
    THEN node[current].right
    ELSE IF node[current].parent # nullptr
    THEN next_highest_sibling(node, current)
    ELSE nullptr

\* Iterator::operator++, on an iterator that is not at the end
increment(node, current) ==
    IF node[current].child # nullptr
    THEN node[current].child
    ELSE IF node[current].right # nullptr
    THEN node[current].right
    ELSE IF node[current].parent # nullptr
    THEN next_highest_sibling(node, current)
    ELSE nullptr

----------------------------------------------------------------------------
(* FlatSet<Key, Compare>: a std::vector of keys, data_, and a comparator.   *)
(* An iterator is an index into data_; end() is the index past the last     *)
(* element.                                                                 *)

\* a default-constructed set; keys (not in the source) is the set of keys
\* inserted and not erased since, call is the last call and what it returned
FlatSet(comparator) ==
    [data_ |-> << >>, comparator_ |-> comparator, keys |-> {},
     call |-> [op |-> "", key |-> 0, ret |-> 0]]

\* std::lower_bound over the len elements from first: the binary search
RECURSIVE std_lower_bound(_, _, _, _, _)
std_lower_bound(data, first, len, value, comparator) ==
    IF len = 0
    THEN first
    ELSE IF invoke(comparator, data[first + len \div 2], value)
    THEN std_lower_bound(data, first + len \div 2 + 1,
                         len - len \div 2 - 1, value, comparator)
    ELSE std_lower_bound(data, first, len \div 2, value, comparator)

\* std::vector: insert(pos, value), erase(pos)
vector_insert(data, pos, value) ==
    SubSeq(data, 1, pos - 1) \o << value >> \o SubSeq(data, pos, Len(data))

vector_erase(data, pos) ==
    SubSeq(data, 1, pos - 1) \o SubSeq(data, pos + 1, Len(data))

\* std::rotate(first, n_first, last): [n_first, last) comes to first
std_rotate(data, first, n_first, last) ==
    SubSeq(data, 1, first - 1) \o SubSeq(data, n_first, last - 1)
    \o SubSeq(data, first, n_first - 1) \o SubSeq(data, last, Len(data))

FlatSet_end(s) == Len(s.data_) + 1

FlatSet_lower_bound(s, value) ==
    std_lower_bound(s.data_, 1, Len(s.data_), value, s.comparator_)

\* insert(value) once lower_bound has answered found
insert_found(s, found, value) ==
    IF found # FlatSet_end(s)
    THEN [data_ |-> s.data_, first |-> found, second |-> FALSE]
    ELSE [data_ |-> vector_insert(s.data_, found, value), first |-> found,
          second |-> TRUE]

FlatSet_insert(s, value) ==
    insert_found(s, FlatSet_lower_bound(s, value), value)

\* emplace(value) after emplace_back, data the vector with the new element
\* last, once std::lower_bound over [begin(), end() - 1) has answered found
emplace_found(data, found) ==
    IF found # Len(data)
    THEN [data_ |-> SubSeq(data, 1, Len(data) - 1), first |-> found,
          second |-> FALSE]
    ELSE [data_ |-> std_rotate(data, found, Len(data), Len(data) + 1),
          first |-> found, second |-> TRUE]

FlatSet_emplace(s, value) ==
    emplace_found(Append(s.data_, value),
                  std_lower_bound(Append(s.data_, value), 1, Len(s.data_),
                                  value, s.comparator_))

\* erase(key) once lower_bound has answered found
erase_found(s, found) ==
    IF found # FlatSet_end(s)
    THEN [data_ |-> vector_erase(s.data_, found), ret |-> 1]
    ELSE [data_ |-> s.data_, ret |-> 0]

FlatSet_erase(s, key) == erase_found(s, FlatSet_lower_bound(s, key))

FlatSet_count(s, value) ==
    IF FlatSet_lower_bound(s, value) = FlatSet_end(s) THEN 0 ELSE 1

----------------------------------------------------------------------------
(* State *)

VARIABLES
    kind,       \* the allocator under test
    stk,        \* the StackAllocator (under test, or the stack child)
    blocks_,    \* the registry of the GlobalAllocator
    heap,       \* chunks live at the system layer
    pools_,     \* the pools of the PoolAllocator, in heap order
    vec,        \* the storage of the vector of pools
    ub,         \* the run has executed undefined behaviour
    live,       \* blocks the client holds, sorted by address and size
    last,       \* the last call: its arguments and its outcome
    behaved,    \* the client has passed back only blocks it holds
    phase,      \* history of a stack: fresh, allocs, unwind, unwound, other
    calls,      \* the calls of its children the last call made
    pc,         \* threads: where each thread stands in its call
    mutex_,     \* threads: the thread that holds the instance mutex
    req,        \* threads: the call each thread is in
    other,      \* a second GlobalAllocator, and the move assignment under way
    fheap,      \* the FibonacciHeap and the elements added to it
    iter,       \* the iterator over the FibonacciHeap
    fset        \* the FlatSet, the keys put in it, and its last call

vars ==
    << kind, stk, blocks_, heap, pools_, vec, ub, live, last, behaved, phase,
       calls, pc, mutex_, req, other, fheap, iter, fset >>

\* the variables of the threads, of the second allocator, of the heap and of
\* the set
heapvars == << fheap, iter, fset >>

threadvars == << pc, mutex_, req, other, fheap, iter, fset >>

Threads == 1..NThreads
NoThread == 0
ThreadSizes == 0..ThreadReq
NoSeen == [stk |-> 0, blocks_ |-> {}]
NoReq ==
    [op |-> "none", block |-> NullBlock, size |-> 0, alignment |-> 1,
     ptr |-> 0, seen |-> NoSeen, res |-> Ok, ret |-> NullBlock,
     answer |-> 0]

\* Every call starts on a store in which each byte holds a value of its own
\* (its address): what a call copies, and where to, shows in W.mem after it.
MemAddrs == 1..AddrLimit
IdMem == [a \in MemAddrs |-> a]

World ==
    [kind |-> kind, stk |-> stk, blocks_ |-> blocks_, heap |-> heap,
     pools_ |-> pools_, vec |-> vec, mem |-> IdMem, ub |-> ub]

UsesStack(k) == k \in { "stack", "fallback", "segregating" }
UsesHeap(k) == k # "stack"

\* What the environment may answer to a malloc or a realloc: a null pointer,
\* or the lowest or the highest free cell (taken: a cell the call has used).
EndCells(taken) ==
    LET cells == { c \in HeapAddrs(kind) :
                       ChunkAt(heap, c) = {} /\ c \notin taken }
    IN { c \in cells :
           (\A d \in cells : c <= d) \/ (\A d \in cells : d <= c) }
MallocChoices(taken) ==
    IF UsesHeap(kind) THEN { 0 } \cup EndCells(taken) ELSE { 0 }
\* a PoolAllocator may ask twice in a call: for a pool, for the vector
SecondChoices(taken) ==
    IF kind = "pool" THEN { 0 } \cup EndCells(taken) ELSE { 0 }
\* std::realloc may also answer with the address it was given
ReallocChoices(block) ==
    MallocChoices({}) \cup
    (IF kind # "pool" /\ ChunkAt(heap, block.memory) # {}
     THEN { block.memory } ELSE {})
\* the GlobalAllocator ignores the alignment
AlignChoices == IF kind = "global" THEN { 1 } ELSE Alignments
\* the threads of a PoolAllocator ask for the alignment 1 only
ThreadAligns == IF kind = "pool" THEN { 1 } ELSE AlignChoices
ReallocFrees == IF kind \in { "stack", "pool" } THEN { FALSE } ELSE BOOLEAN
SizeChoices == IF kind = "pool" THEN 0..PoolReq ELSE Sizes
LiveCap(k) == IF k = "stack" THEN MaxLive ELSE MaxHeld

\* the stack allocators of the store
Stacks(W) ==
    IF W.kind = "pool" THEN { W.pools_[i] : i \in 1..Len(W.pools_) }
    ELSE IF UsesStack(W.kind) THEN { W.stk } ELSE {}

\* the memory a client may read and write through a block it was given
Regions(W) ==
    { [lo |-> s.begin, hi |-> s.begin + s.N] : s \in Stacks(W) }
    \cup (IF W.kind = "pool" THEN {}
          ELSE { [lo |-> h.memory, hi |-> h.memory + h.size] : h \in W.heap })

Usable(W, b) ==
    \E r \in Regions(W) : r.lo <= b.memory /\ b.memory + b.size <= r.hi

\* the first min(old size, new size) bytes of the returned block are the
\* bytes the old block held
Kept(W, old, ret, size) ==
    /\ Usable(W, MemoryBlock(ret.memory, Min(old.size, size)))
    /\ \A i \in 0..(Min(old.size, size) - 1) :
          W.mem[ret.memory + i] = old.memory + i

InBounds(W) ==
    /\ \A s \in Stacks(W) :
          /\ s.stack_pointer_ <= s.begin + s.N + OverrunRoom
          /\ s.allocated_ <= LiveCap(W.kind)
    /\ Len(W.pools_) <= MaxPools

\* a stack pointer has left its buffer: the bytes behind the buffer are the
\* allocator's own fields
Overrun(W) == \E s \in Stacks(W) : s.stack_pointer_ > s.begin + s.N

\* the record of a call; of a call that failed only the operation and the
\* exception are kept (and the size of an allocate, the arguments of a
\* reallocate that failed with NotOwnedException)
Call(op, block, size, alignment, res, ret, kept) ==
    IF res = Ok \/ (op = "reallocate" /\ res = NotOwnedException)
    THEN [op |-> op, block |-> block, size |-> size, alignment |-> alignment,
          res |-> res, ret |-> ret, kept |-> kept]
    ELSE [op |-> op, block |-> NullBlock,
          size |-> IF op = "allocate" THEN size ELSE 0, alignment |-> 1,
          res |-> res, ret |-> NullBlock, kept |-> TRUE]

\* the environment's answer a is only drawn when the call asked the heap
Asked(W, a) == a # 0 => ChunkAt(W.heap, a) # {}

Commit(W) ==
    /\ stk' = W.stk
    /\ blocks_' = W.blocks_
    /\ heap' = W.heap
    /\ pools_' = W.pools_
    /\ vec' = W.vec
    /\ ub' = W.ub
    /\ kind' = kind

BlockLess(x, y) ==
    IF x.memory = y.memory THEN x.size < y.size ELSE x.memory < y.memory

Remove(seq, i) ==
    [j \in 1..(Len(seq) - 1) |-> IF j < i THEN seq[j] ELSE seq[j + 1]]

\* insert a block into the sorted sequence of held blocks
Insert(seq, b) ==
    LET k == Cardinality({ j \in 1..Len(seq) : ~BlockLess(b, seq[j]) })
    IN [j \in 1..(Len(seq) + 1) |->
           IF j <= k THEN seq[j] ELSE IF j = k + 1 THEN b ELSE seq[j - 1]]

\* the allocator of kind k just constructed, its stack of capacity N
ConstructedAllocator(k, N) ==
    /\ kind = k
    /\ stk = StackAllocator(StackBase, N)
    /\ blocks_ = {}
    /\ heap = {}
    /\ pools_ = << >>
    /\ vec = NoVec
    /\ ub = FALSE
    /\ live = << >>
    /\ last = Call("init", NullBlock, 0, 1, Ok, NullBlock, TRUE)
    /\ behaved = TRUE
    /\ phase = IF kind = "stack" THEN "fresh" ELSE "other"
    /\ calls = << >>
    /\ pc = [t \in Threads |-> "idle"]
    /\ mutex_ = NoThread
    /\ req = [t \in Threads |-> NoReq]
    /\ other = [blocks_ |-> {}, mutex_ |-> NoThread, dst |-> "", src |-> ""]

\* a default-constructed FibonacciHeap<int, Compare>
ConstructedHeap(comparator) ==
    /\ fheap = FibonacciHeap(comparator)
    /\ iter = Fib_end

Constructed(k, N) ==
    /\ ConstructedAllocator(k, N)
    /\ ConstructedHeap("less")
    /\ fset = FlatSet("less")

Init ==
    \E k \in Kinds :
        Constructed(k, IF k = "stack" THEN StackN ELSE ChildN)

\* the registry names a chunk that the system heap has freed
Dangling(W) == \E b \in W.blocks_ : ChunkAt(W.heap, b.memory) = {}

\* a run is followed while the client behaves, nothing undefined has been
\* executed, no stack pointer has left its buffer and no registered chunk
\* has been freed behind the registry
Running == behaved /\ ~ub /\ ~Overrun(World) /\ ~Dangling(World)

\* the calls of the children that a handler reports
Calls(r) == IF "calls" \in DOMAIN r THEN r.calls ELSE << >>

\* the client's allocate(size, alignment) with the outcome r
Allocated(r, size, alignment, a, a2) ==
    /\ calls' = Calls(r)
    /\ r.feasible
    /\ Asked(r.W, a)
    /\ Asked(r.W, a2)
    /\ InBounds(r.W)
    /\ Commit(r.W)
    /\ live' = IF r.res = Ok THEN Insert(live, r.block) ELSE live
    /\ last' = Call("allocate", NullBlock, size, alignment, r.res, r.block,
                    TRUE)
    /\ phase' = IF r.res # Ok THEN phase
                ELSE IF size > 0 /\ phase \in { "fresh", "allocs" }
                THEN "allocs" ELSE "other"

Allocate ==
    /\ Running
    /\ Len(live) < LiveCap(kind)
    /\ \E size \in SizeChoices, alignment \in AlignChoices,
          a \in MallocChoices({}) :
       \E a2 \in SecondChoices({ a }) :
          Allocated(allocate(World, size, alignment, a, a2), size, alignment,
                    a, a2)
    /\ UNCHANGED << behaved, threadvars >>

\* the client's reallocate(live[i], size, alignment) with the outcome r
Reallocated(r, i, size, a, a2) ==
    /\ calls' = Calls(r)
    /\ r.feasible
    /\ Asked(r.W, a)
    /\ Asked(r.W, a2)
    /\ InBounds(r.W)
    /\ Commit(r.W)
    /\ live' = IF r.res = Ok THEN Insert(Remove(live, i), r.block) ELSE live
    /\ last' = Call("reallocate", live[i], size, 1, r.res, r.block,
                    r.res = Ok => Kept(r.W, live[i], r.block, size))

Reallocate ==
    /\ Running
    /\ \E i \in 1..Len(live), size \in SizeChoices,
          alignment \in AlignChoices :
       \E a \in ReallocChoices(live[i]) :
       \E a2 \in SecondChoices({ a }),
          rz \in (IF size = 0 THEN ReallocFrees ELSE { FALSE }) :
          Reallocated(reallocate(World, live[i], size, alignment, a, a2, rz),
                      i, size, a, a2)
    /\ phase' = "other"
    /\ UNCHANGED << behaved, threadvars >>

\* the client's deallocate(live[i]) with the outcome r; in an unwinding
\* stack the block received last is the one at the highest address
Deallocated(r, i) ==
    /\ Commit(r.W)
    /\ live' = Remove(live, i)
    /\ last' = Call("deallocate", live[i], 0, 1, r.res, NullBlock, TRUE)
    /\ phase' = IF r.res = Ok /\ i = Len(live)
                   /\ phase \in { "allocs", "unwind" }
                THEN (IF Len(live) = 1 THEN "unwound" ELSE "unwind")
                ELSE "other"

Deallocate ==
    /\ Running
    /\ \E i \in 1..Len(live) : Deallocated(deallocate(World, live[i]), i)
    /\ calls' = << >>
    /\ UNCHANGED << behaved, threadvars >>

\* the record keeps the number of blocks the client held
DeallocateAll ==
    /\ Running
    /\ Commit(deallocate_all(World))
    /\ live' = << >>
    /\ last' = Call("deallocate_all", NullBlock, Len(live), 1, Ok, NullBlock,
                    TRUE)
    /\ phase' = "other"
    /\ calls' = << >>
    /\ UNCHANGED << behaved, threadvars >>

Next ==
    \/ Allocate
    \/ Reallocate
    \/ Deallocate
    \/ DeallocateAll

Spec == Init /\ [][Next]_vars

InitStack == Init /\ kind = "stack"
SpecStack == InitStack /\ [][Next]_vars

----------------------------------------------------------------------------
(* A client that passes a block it does not hold to deallocate: a block made *)
(* up of an address and a size.  The run is not followed after that call.    *)

Fabricated ==
    { MemoryBlock(m, n) :
          m \in (StackBase..(StackBase + StackN)) \cup HeapAddrs(kind),
          n \in 1..2 }

Holds(b) == \E i \in 1..Len(live) : live[i] = b

\* the client's deallocate(x), x not a block it holds, with the outcome r
ForeignDeallocated(r, x) ==
    /\ Commit(r.W)
    /\ live' = live
    /\ last' = Call("deallocate", x, 0, 1, r.res, NullBlock, TRUE)
    /\ behaved' = FALSE
    /\ phase' = "other"
    /\ calls' = << >>

DeallocateForeign ==
    /\ Running
    /\ \E x \in Fabricated :
          /\ ~Holds(x)
          /\ ForeignDeallocated(deallocate(World, x), x)
    /\ UNCHANGED threadvars

NextForeign ==
    \/ Allocate
    \/ Reallocate
    \/ Deallocate
    \/ DeallocateAll
    \/ DeallocateForeign

InitForeign == Init /\ kind \in { "stack", "global" }
SpecForeign == InitForeign /\ [][NextForeign]_vars

----------------------------------------------------------------------------
(* Threads.  NThreads threads call one StackAllocator or GlobalAllocator     *)
(* whose Mutex parameter is a real mutex.  mutex_ is the thread that holds   *)
(* the instance mutex; pc is the place of each thread in its call and req    *)
(* the call it is in.  Inside its critical section a handler reads the       *)
(* fields (Read: into req.seen) and then writes them (Write: what the        *)
(* handler computes from what it read).  A thread takes the block it passes  *)
(* out of live for the time of the call.                                     *)

\* DummyMutex::lock returns at once
DummyMutex_lock(m) == TRUE

\* std::mutex::lock returns when no thread holds the mutex
Mutex_lock(m) == m = NoThread

Request(op, block, size, alignment, ptr) ==
    [NoReq EXCEPT !.op = op, !.block = block, !.size = size,
                  !.alignment = alignment, !.ptr = ptr]

\* the store as the handler of thread t has read it
Seen(t) ==
    [World EXCEPT !.stk = req[t].seen.stk, !.blocks_ = req[t].seen.blocks_]

\* the outcome r of a handler and the value it returns to a query
Done(r, answer) ==
    [res |-> r.res, W |-> r.W,
     ret |-> IF "block" \in DOMAIN r THEN r.block ELSE NullBlock,
     feasible |-> IF "feasible" \in DOMAIN r THEN r.feasible ELSE TRUE,
     answer |-> answer]

\* what the handler of the call q does with the store W.  The allocate of a
\* GlobalAllocator has called std::malloc before it takes the mutex (q.ptr).
Handler(W, q, a, rz) ==
    CASE q.op = "allocate" ->
             Done(IF W.kind = "stack"
                  THEN Stack_allocate_impl(W, q.size, q.alignment)
                  ELSE allocate_registered(
                           W, [ptr |-> q.ptr, heap |-> W.heap,
                               feasible |-> TRUE], q.size), 0)
      [] q.op = "reallocate" ->
             Done(reallocate(W, q.block, q.size, q.alignment, a, 0, rz), 0)
      [] q.op = "deallocate" -> Done(deallocate(W, q.block), 0)
      [] q.op = "owns" ->
             Done([res |-> Ok, W |-> W],
                  IF owns(W, q.block) THEN 1 ELSE 0)
      [] q.op = "max_size" -> Done([res |-> Ok, W |-> W], max_size(W))

\* no call is in a state the sequential runs are not followed from
Sane == ~ub /\ ~Overrun(World) /\ ~Dangling(World)

Pending == Cardinality({ t \in Threads : pc[t] # "idle" })

Started(t, q) ==
    /\ pc' = [pc EXCEPT ![t] = "lock"]
    /\ req' = [req EXCEPT ![t] = q]

\* thread t calls allocate(size, alignment); std::malloc answers a
CallAllocate(t, size, alignment, m) ==
    /\ m.feasible
    /\ m.ptr # 0
    /\ heap' = m.heap
    /\ Started(t, Request("allocate", NullBlock, size, alignment, m.ptr))
    /\ UNCHANGED live

\* thread t calls reallocate or deallocate with the block live[i]
CallWithBlock(t, op, i, size, alignment) ==
    /\ Started(t, Request(op, live[i], size, alignment, 0))
    /\ live' = Remove(live, i)
    /\ UNCHANGED heap

\* thread t calls owns(live[i]) or max_size()
CallQuery(t, op, block) ==
    /\ Started(t, Request(op, block, 0, 1, 0))
    /\ UNCHANGED << live, heap >>

ThreadCall(t) ==
    /\ pc[t] = "idle"
    /\ Sane
    /\ \/ /\ Len(live) + Pending < ThreadLive
          /\ \E size \in ThreadSizes, alignment \in ThreadAligns,
                a \in (IF kind = "global" THEN EndCells({}) ELSE { 1 }) :
                CallAllocate(t, size, alignment,
                             IF kind = "global" THEN malloc(heap, size, a)
                             ELSE [ptr |-> 1, heap |-> heap,
                                   feasible |-> TRUE])
       \/ \E i \in 1..Len(live), size \in ThreadSizes,
             alignment \in ThreadAligns :
             CallWithBlock(t, "reallocate", i, size, alignment)
       \/ \E i \in 1..Len(live) : CallWithBlock(t, "deallocate", i, 0, 1)
       \/ kind # "pool" /\ \E i \in 1..Len(live) :
                               CallQuery(t, "owns", live[i])
       \/ kind = "stack" /\ CallQuery(t, "max_size", NullBlock)
    /\ UNCHANGED heapvars
    /\ UNCHANGED << other, kind, stk, blocks_, pools_, vec, ub, last, behaved,
                    phase, calls, mutex_ >>

\* const LockT lock{ mutex_ }
Acquire(t) ==
    /\ pc[t] = "lock"
    /\ Sane
    /\ Mutex_lock(mutex_)
    /\ mutex_' = t
    /\ pc' = [pc EXCEPT ![t] = "read"]
    /\ UNCHANGED heapvars
    /\ UNCHANGED << other, kind, stk, blocks_, heap, pools_, vec, ub, live, last,
                    behaved, phase, calls, req >>

Read(t) ==
    /\ pc[t] = "read"
    /\ req' = [req EXCEPT ![t].seen = [stk |-> stk, blocks_ |-> blocks_]]
    /\ pc' = [pc EXCEPT ![t] = "write"]
    /\ UNCHANGED heapvars
    /\ UNCHANGED << other, kind, stk, blocks_, heap, pools_, vec, ub, live, last,
                    behaved, phase, calls, mutex_ >>

Written(t, r, a) ==
    /\ r.feasible
    /\ Asked(r.W, a)
    /\ stk' = r.W.stk
    /\ blocks_' = r.W.blocks_
    /\ heap' = r.W.heap
    /\ ub' = r.W.ub
    /\ req' = [req EXCEPT ![t].res = r.res, ![t].ret = r.ret,
                          ![t].answer = r.answer, ![t].seen = NoSeen]
    /\ pc' = [pc EXCEPT ![t] = "unlock"]

Write(t) ==
    /\ pc[t] = "write"
    /\ \E a \in (IF req[t].op = "reallocate"
                 THEN ReallocChoices(req[t].block) ELSE { 0 }),
          rz \in (IF req[t].op = "reallocate" /\ req[t].size = 0
                  THEN ReallocFrees ELSE { FALSE }) :
          Written(t, Handler(Seen(t), req[t], a, rz), a)
    /\ UNCHANGED heapvars
    /\ UNCHANGED << other, kind, pools_, vec, live, last, behaved, phase, calls,
                    mutex_ >>

\* the block the client holds after the call q has returned
Held(q) ==
    IF q.op \in { "allocate", "reallocate" } /\ q.res = Ok THEN << q.ret >>
    ELSE IF q.op = "reallocate" THEN << q.block >>
    ELSE << >>

\* the lock goes out of scope and the call returns
Release(t) ==
    /\ pc[t] = "unlock"
    /\ mutex_' = NoThread
    /\ pc' = [pc EXCEPT ![t] = "idle"]
    /\ req' = [req EXCEPT ![t] = NoReq]
    /\ live' = IF Held(req[t]) = << >> THEN live
               ELSE Insert(live, Held(req[t])[1])
    /\ UNCHANGED heapvars
    /\ UNCHANGED << other, kind, stk, blocks_, heap, pools_, vec, ub, last, behaved,
                    phase, calls >>

NextThreads ==
    \E t \in Threads :
        \/ ThreadCall(t)
        \/ Acquire(t)
        \/ Read(t)
        \/ Write(t)
        \/ Release(t)

InitThreads == \E k \in { "stack", "global" } : Constructed(k, ThreadN)
SpecThreads == InitThreads /\ [][NextThreads]_vars

----------------------------------------------------------------------------
(* Threads that call one FallbackAllocator<StackAllocator<N, Mutex>,         *)
(* GlobalAllocator<Mutex>>.  The FallbackAllocator has no mutex of its own:  *)
(* a handler is a sequence of calls of its children, and each call of a      *)
(* child is one step (the children take their own mutex).  pc is the call    *)
(* of a child that the thread makes next.                                    *)

\* the call of a child at p in the handler of the call q, and the place
\* where the handler goes on ("idle": it returns or throws)
Fallback_step(W, q, p, a) ==
    CASE p = "primary.allocate" ->
             Done(Stack_allocate_impl(W, q.size, q.alignment), 0)
      [] p = "secondary.allocate" ->
             Done(Global_allocate_impl(W, q.size, a), 0)
      [] p = "primary.owns" ->
             Done([res |-> Ok, W |-> W],
                  IF Stack_owns_locked(W.stk, q.block) THEN 1 ELSE 0)
      [] p = "secondary.owns" ->
             Done([res |-> Ok, W |-> W],
                  IF Global_owns_impl(W, q.block) THEN 1 ELSE 0)
      [] p = "primary.deallocate" ->
             Done(Stack_deallocate_impl(W, q.block), 0)
      [] p = "secondary.deallocate" ->
             Done(Global_deallocate_locked(W, q.block), 0)

Fallback_after(p, r) ==
    CASE p = "primary.allocate" ->
             IF r.res = BadAllocationException THEN "secondary.allocate"
             ELSE "idle"
      [] p = "primary.owns" ->
             IF r.answer = 1 THEN "primary.deallocate" ELSE "secondary.owns"
      [] p = "secondary.owns" ->
             IF r.answer = 1 THEN "secondary.deallocate" ELSE "idle"
      [] OTHER -> "idle"

FallbackCall(t) ==
    /\ pc[t] = "idle"
    /\ \/ /\ Len(live) + Pending < ThreadLive
          /\ \E size \in ThreadSizes, alignment \in Alignments :
                req' = [req EXCEPT ![t] =
                           Request("allocate", NullBlock, size, alignment,
                                   0)]
          /\ pc' = [pc EXCEPT ![t] = "primary.allocate"]
          /\ UNCHANGED live
       \/ \E i \in 1..Len(live) :
             /\ req' = [req EXCEPT ![t] =
                            Request("deallocate", live[i], 0, 1, 0)]
             /\ pc' = [pc EXCEPT ![t] = "primary.owns"]
             /\ live' = Remove(live, i)
    /\ UNCHANGED heapvars
    /\ UNCHANGED << other, kind, stk, blocks_, heap, pools_, vec, ub, last, behaved,
                    phase, calls, mutex_ >>

\* thread t has made its call of a child with the outcome r and goes on at p
ChildCalled(t, r, p, a) ==
    /\ r.feasible
    /\ Asked(r.W, a)
    /\ stk' = r.W.stk
    /\ blocks_' = r.W.blocks_
    /\ heap' = r.W.heap
    /\ ub' = r.W.ub
    /\ pc' = [pc EXCEPT ![t] = p]
    /\ req' = [req EXCEPT ![t] = IF p = "idle" THEN NoReq ELSE @]
    /\ live' = IF p = "idle" /\ req[t].op = "allocate" /\ r.res = Ok
               THEN Insert(live, r.ret) ELSE live

FallbackChildCall(t) ==
    /\ pc[t] # "idle"
    /\ \E a \in (IF pc[t] = "secondary.allocate" THEN MallocChoices({})
                 ELSE { 0 }) :
          ChildCalled(t, Fallback_step(World, req[t], pc[t], a),
                      Fallback_after(pc[t],
                                     Fallback_step(World, req[t], pc[t], a)),
                      a)
    /\ UNCHANGED heapvars
    /\ UNCHANGED << other, kind, pools_, vec, last, behaved, phase, calls, mutex_ >>

NextFallbackThreads ==
    \E t \in Threads :
        \/ FallbackCall(t)
        \/ FallbackChildCall(t)

InitFallbackThreads == Constructed("fallback", ThreadN)
SpecFallbackThreads == InitFallbackThreads /\ [][NextFallbackThreads]_vars

----------------------------------------------------------------------------
(* Threads that call one PoolAllocator<PoolSize, GlobalAllocator<>, Mutex>   *)
(* whose Mutex is a real mutex that is not recursive.  The calls, the lock   *)
(* and the return are those of the threads above; the handler of a           *)
(* PoolAllocator runs under the lock.                                        *)

\* what the handler of the call q does with the store W
Pool_handler(W, q, a, a2) ==
    CASE q.op = "allocate" ->
             Done(Pool_allocate_impl(W, q.size, q.alignment, a, a2), 0)
      [] q.op = "reallocate" ->
             Done(Pool_reallocate_impl(W, q.block, q.size, q.alignment, a,
                                       a2), 0)
      [] q.op = "deallocate" -> Done(Pool_deallocate_impl(W, q.block), 0)

\* reallocate_impl has caught the BadAllocationException of owner.reallocate
\* and calls allocate(size, alignment): allocate_impl takes the mutex when
\* size <= PoolSize
CallsAllocate(W, q) ==
    /\ q.op = "reallocate"
    /\ q.size <= PoolSize
    /\ get_owner_iter(W.pools_, q.block) # 0
    /\ Stack_reallocate_impl(W.pools_[get_owner_iter(W.pools_, q.block)],
                             q.block, q.size, q.alignment).res
       = BadAllocationException

PoolWritten(t, r, a, a2) ==
    /\ r.feasible
    /\ Asked(r.W, a)
    /\ Asked(r.W, a2)
    /\ InBounds(r.W)
    /\ pools_' = r.W.pools_
    /\ vec' = r.W.vec
    /\ blocks_' = r.W.blocks_
    /\ heap' = r.W.heap
    /\ ub' = r.W.ub
    /\ req' = [req EXCEPT ![t].res = r.res, ![t].ret = r.ret,
                          ![t].answer = r.answer, ![t].seen = NoSeen]
    /\ pc' = [pc EXCEPT ![t] = "unlock"]

PoolWrite(t) ==
    /\ pc[t] = "write"
    /\ IF CallsAllocate(World, req[t])
       THEN /\ pc' = [pc EXCEPT ![t] = "lock"]
            /\ UNCHANGED << pools_, vec, blocks_, heap, ub, req >>
       ELSE \E a \in MallocChoices({}) :
            \E a2 \in SecondChoices({ a }) :
                PoolWritten(t, Pool_handler(World, req[t], a, a2), a, a2)
    /\ UNCHANGED heapvars
    /\ UNCHANGED << other, kind, stk, live, last, behaved, phase, calls, mutex_ >>

NextPoolThreads ==
    \E t \in Threads :
        \/ ThreadCall(t)
        \/ Acquire(t)
        \/ Read(t)
        \/ PoolWrite(t)
        \/ Release(t)

InitPoolThreads == Constructed("pool", ThreadN)
SpecPoolThreads == InitPoolThreads /\ [][NextPoolThreads]_vars

----------------------------------------------------------------------------
(* Two GlobalAllocators A and B over one system heap, and move assignment    *)
(* between them.  blocks_ and mutex_ are the fields of A, other.blocks_ and  *)
(* other.mutex_ those of B; other.dst and other.src name the allocators of   *)
(* the assignment dst = std::move(src) that thread 1 is in.                  *)

Registry(x) == IF x = "A" THEN blocks_ ELSE other.blocks_

\* a move assignment that copies: the source keeps its elements
unordered_set_copy_assign(this, that) == [this |-> that, that |-> that]

\* std::unordered_set: this = std::move(that).  this takes the elements of
\* that and drops its own; that is left empty.
unordered_set_move_assign(this, that) == [this |-> that, that |-> {}]

\* allocate(size, alignment) on the allocator x has the outcome r
MoveAllocated(x, r) ==
    /\ r.feasible
    /\ heap' = r.W.heap
    /\ blocks_' = IF x = "A" THEN r.W.blocks_ ELSE blocks_
    /\ other' = IF x = "A" THEN other
                ELSE [other EXCEPT !.blocks_ = r.W.blocks_]

MoveAllocate ==
    /\ pc[1] = "idle"
    /\ \E x \in { "A", "B" }, size \in Sizes, a \in EndCells({}) :
          MoveAllocated(x, Global_allocate_impl(
                               [World EXCEPT !.blocks_ = Registry(x)], size,
                               a))
    /\ UNCHANGED heapvars
    /\ UNCHANGED << kind, stk, pools_, vec, ub, live, last, behaved, phase,
                    calls, pc, mutex_, req >>

\* dst = std::move(src) is called
MoveCall ==
    /\ pc[1] = "idle"
    /\ \E dst \in { "A", "B" }, src \in { "A", "B" } :
          other' = [other EXCEPT !.dst = dst, !.src = src]
    /\ pc' = [pc EXCEPT ![1] = "check"]
    /\ UNCHANGED heapvars
    /\ UNCHANGED << kind, stk, blocks_, heap, pools_, vec, ub, live, last,
                    behaved, phase, calls, mutex_, req >>

\* if (&other == this) return *this;
MoveCheck ==
    /\ pc[1] = "check"
    /\ pc' = [pc EXCEPT ![1] = IF other.src = other.dst THEN "idle"
                               ELSE "lock"]
    /\ other' = IF other.src = other.dst
                THEN [other EXCEPT !.dst = "", !.src = ""] ELSE other
    /\ UNCHANGED heapvars
    /\ UNCHANGED << kind, stk, blocks_, heap, pools_, vec, ub, live, last,
                    behaved, phase, calls, mutex_, req >>

\* const DoubleLockT lock{ mutex_, other.mutex_ }
MoveLock ==
    /\ pc[1] = "lock"
    /\ Mutex_lock(mutex_)
    /\ Mutex_lock(other.mutex_)
    /\ mutex_' = 1
    /\ other' = [other EXCEPT !.mutex_ = 1]
    /\ pc' = [pc EXCEPT ![1] = "write"]
    /\ UNCHANGED heapvars
    /\ UNCHANGED << kind, stk, blocks_, heap, pools_, vec, ub, live, last,
                    behaved, phase, calls, req >>

\* blocks_ = std::move(other.blocks_) in dst, with the outcome m
MoveAssigned(m) ==
    /\ blocks_' = IF other.dst = "A" THEN m.this ELSE m.that
    /\ other' = [other EXCEPT
                     !.blocks_ = IF other.dst = "A" THEN m.that ELSE m.this]

MoveAssign ==
    /\ pc[1] = "write"
    /\ MoveAssigned(unordered_set_move_assign(Registry(other.dst),
                                              Registry(other.src)))
    /\ pc' = [pc EXCEPT ![1] = "unlock"]
    /\ UNCHANGED heapvars
    /\ UNCHANGED << kind, stk, heap, pools_, vec, ub, live, last, behaved,
                    phase, calls, mutex_, req >>

\* return *this: the lock goes out of scope
MoveReturn ==
    /\ pc[1] = "unlock"
    /\ mutex_' = NoThread
    /\ other' = [other EXCEPT !.mutex_ = NoThread, !.dst = "", !.src = ""]
    /\ pc' = [pc EXCEPT ![1] = "idle"]
    /\ UNCHANGED heapvars
    /\ UNCHANGED << kind, stk, blocks_, heap, pools_, vec, ub, live, last,
                    behaved, phase, calls, req >>

NextMove ==
    \/ MoveAllocate
    \/ MoveCall
    \/ MoveCheck
    \/ MoveLock
    \/ MoveAssign
    \/ MoveReturn

InitMove == Constructed("global", ChildN)
SpecMove == InitMove /\ [][NextMove]_vars

----------------------------------------------------------------------------
(* A FibonacciHeap<int, Compare> and one iterator over it.  The client adds  *)
(* elements with push, emplace and insert, and walks the heap from begin()   *)
(* with operator++; it adds nothing while an iterator is in use.             *)

HeapVals == 0..MaxVal

\* the lists that insert takes
Ilists == UNION { [1..n -> HeapVals] : n \in 0..InsertLen }

allocvars ==
    << kind, stk, blocks_, heap, pools_, vec, live, last, behaved, phase,
       calls, pc, mutex_, req, other >>

HeapPush ==
    \E value \in HeapVals :
        /\ ~iter.begun
        /\ Len(fheap.added) < HeapMax
        /\ fheap' = Fib_push(fheap, value)
        /\ UNCHANGED << iter, fset, ub, allocvars >>

HeapEmplace ==
    \E value \in HeapVals :
        /\ ~iter.begun
        /\ Len(fheap.added) < HeapMax
        /\ fheap' = Fib_emplace(fheap, value)
        /\ UNCHANGED << iter, fset, ub, allocvars >>

HeapInsert ==
    \E ilist \in Ilists :
        /\ ~iter.begun
        /\ Len(fheap.added) + Len(ilist) <= HeapMax
        /\ fheap' = Fib_insert(fheap, ilist)
        /\ UNCHANGED << iter, fset, ub, allocvars >>

\* begin() binds a reference to *root_: undefined on an empty heap, where
\* root_ is null (the iterator that comes out holds the null address)
HeapBegin ==
    /\ ~iter.begun
    /\ iter' = Fib_begin(fheap)
    /\ ub' = (ub \/ fheap.root_ = nullptr)
    /\ UNCHANGED << fheap, fset, allocvars >>

\* ++it, for it != end()
HeapIncrement ==
    /\ iter.begun
    /\ iter.current_ # nullptr
    /\ iter' = Iterator(increment(fheap.node, iter.current_), iter.visited,
                        TRUE)
    /\ UNCHANGED << fheap, fset, ub, allocvars >>

\* the client is done with the iterator
IteratorDestroyed ==
    /\ iter.begun
    /\ iter' = Fib_end
    /\ UNCHANGED << fheap, fset, ub, allocvars >>

NextHeap ==
    \/ HeapPush
    \/ HeapEmplace
    \/ HeapInsert
    \/ HeapBegin
    \/ HeapIncrement
    \/ IteratorDestroyed

InitHeap ==
    \E comparator \in Compares :
        /\ ConstructedAllocator("stack", StackN)
        /\ ConstructedHeap(comparator)
        /\ fset = FlatSet("less")

SpecHeap == InitHeap /\ [][NextHeap]_vars

----------------------------------------------------------------------------
(* The heap of pools of a PoolAllocator<HeapPoolSize, Allocator> under       *)
(* allocate and deallocate alone, with more and larger pools than the        *)
(* allocators above have.  The backing allocator serves every request: the   *)
(* k-th pool it hands out stands at StackBase + (k - 1) * PoolStride, and    *)
(* the storage of the vector is not followed.  The requests are of 1 to      *)
(* HeapPoolSize + 1 bytes.                                                   *)

\* allocate_new, the backing allocator serving: p is the outcome of
\* pool->allocate(count, alignment) in the new pool
allocate_new_served(pools, p) ==
    IF p.res # Ok
    THEN [res |-> p.res, pools |-> pools, block |-> NullBlock]
    ELSE [res |-> Ok, pools |-> push_heap(Append(pools, p.s)),
          block |-> p.block]

allocate_new_fresh(pools, count, alignment) ==
    allocate_new_served(
        pools,
        Stack_allocate_locked(
            StackAllocator(StackBase + Len(pools) * PoolStride,
                           HeapPoolSize),
            count, alignment))

\* allocate_impl after pools_.front()->allocate (r)
allocate_front_or_new(pools, r, size, alignment) ==
    IF r.res = Ok
    THEN [res |-> Ok, pools |-> fix_down([pools EXCEPT ![1] = r.s]),
          block |-> r.block]
    ELSE allocate_new_fresh(pools, size, alignment)

PoolHeap_allocate_impl(pools, size, alignment) ==
    IF size > HeapPoolSize
    THEN [res |-> BadAllocationException, pools |-> pools,
          block |-> NullBlock]
    ELSE IF pools = << >>
    THEN allocate_new_fresh(pools, size, alignment)
    ELSE allocate_front_or_new(
             pools, Stack_allocate_locked(pools[1], size, alignment), size,
             alignment)

poolheapvars ==
    << kind, stk, blocks_, heap, vec, ub, behaved, phase, calls, threadvars >>

PoolHeapAllocated(r, size, alignment) ==
    /\ Len(r.pools) <= HeapPools
    /\ \A k \in 1..Len(r.pools) : r.pools[k].allocated_ <= HeapLive
    /\ pools_' = r.pools
    /\ live' = IF r.res = Ok THEN Insert(live, r.block) ELSE live
    /\ last' = Call("allocate", NullBlock, 0, 1, r.res, NullBlock, TRUE)

PoolHeapAllocate ==
    /\ Running
    /\ Len(live) < HeapLive
    /\ \E size \in 1..(HeapPoolSize + 1), alignment \in Alignments :
          PoolHeapAllocated(PoolHeap_allocate_impl(pools_, size, alignment),
                            size, alignment)
    /\ UNCHANGED poolheapvars

PoolHeapDeallocated(r, i) ==
    /\ pools_' = r.W.pools_
    /\ live' = Remove(live, i)
    /\ last' = Call("deallocate", NullBlock, 0, 1, r.res, NullBlock, TRUE)

PoolHeapDeallocate ==
    /\ Running
    /\ \E i \in 1..Len(live) :
          PoolHeapDeallocated(Pool_deallocate_impl(World, live[i]), i)
    /\ UNCHANGED poolheapvars

NextPoolHeap ==
    \/ PoolHeapAllocate
    \/ PoolHeapDeallocate

InitPoolHeap == Constructed("pool", ChildN)

SpecPoolHeap == InitPoolHeap /\ [][NextPoolHeap]_vars

----------------------------------------------------------------------------
(* The FlatSet on its own: the client inserts, emplaces and erases keys.    *)

SetKeys == 0..MaxKey

\* the call op(key) has left the vector data and returned ret
SetCalled(op, key, data, ret, keys) ==
    fset' = [fset EXCEPT !.data_ = data, !.keys = keys,
                         !.call = [op |-> op, key |-> key, ret |-> ret]]

SetInserted(r, value) ==
    SetCalled("insert", value, r.data_, IF r.second THEN 1 ELSE 0,
              fset.keys \cup { value })

SetInsert ==
    /\ \E value \in SetKeys : SetInserted(FlatSet_insert(fset, value), value)
    /\ UNCHANGED << fheap, iter, ub, allocvars >>

SetEmplaced(r, value) ==
    SetCalled("emplace", value, r.data_, IF r.second THEN 1 ELSE 0,
              fset.keys \cup { value })

SetEmplace ==
    /\ \E value \in SetKeys :
          SetEmplaced(FlatSet_emplace(fset, value), value)
    /\ UNCHANGED << fheap, iter, ub, allocvars >>

SetErased(r, key) ==
    SetCalled("erase", key, r.data_, r.ret, fset.keys \ { key })

SetErase ==
    /\ \E key \in SetKeys : SetErased(FlatSet_erase(fset, key), key)
    /\ UNCHANGED << fheap, iter, ub, allocvars >>

NextSet ==
    \/ SetInsert
    \/ SetEmplace
    \/ SetErase

InitSet == Constructed("global", ChildN)
SpecSet == InitSet /\ [][NextSet]_vars

----------------------------------------------------------------------------
(* Properties *)

TypeOK ==
    /\ kind \in Kinds
    /\ Len(live) <= MaxLive
    /\ \A s \in Stacks(World) : s.max_size_ \in 0..SIZE_MAX

\* the blocks a client can name
Blocks ==
    { MemoryBlock(m, n) : m \in 0..AddrLimit, n \in 0..(MaxReq + PoolReq) }

Disjoint(x, y) == Range(x) \cap Range(y) = {}

\* the block lies in the arena of a StackAllocator
StackServed(b) ==
    \E s \in Stacks(World) : b.memory >= s.begin /\ b.memory <= s.begin + s.N

\* C1: with a well-behaved client of a StackAllocator or a PoolAllocator,
\* any two blocks that are live at the same time have disjoint byte ranges.
C1_LiveBlocksDisjoint ==
    (kind \in { "stack", "pool" } /\ behaved) =>
        \A i, j \in 1..Len(live) : i < j => Disjoint(live[i], live[j])

C1_TwoPoolsLive == kind = "pool" /\ Len(pools_) = 2 /\ Len(live) = 2

\* C2: right after a successful allocate(n, a) the allocator owns the block
\* returned, the block has size n, and a block served by a stack arena
\* stands at a multiple of a; for every size, 0 included.
C2_AllocateReturns ==
    (last.op = "allocate" /\ last.res = Ok) =>
        /\ owns(World, last.ret)
        /\ last.ret.size = last.size
        /\ (StackServed(last.ret) => last.ret.memory % last.alignment = 0)

C2_AllocatedZero == last.op = "allocate" /\ last.res = Ok /\ last.size = 0

\* C3: deallocate of a block the allocator did not hand out (or that was
\* deallocated before) fails with NotOwned and changes nothing in the
\* allocator.
C3_ForeignRejected ==
    [][(behaved /\ ~behaved') =>
          /\ last'.res = NotOwnedException
          /\ UNCHANGED << stk, blocks_, heap, pools_, vec >>]_vars

C3_ForeignPassed == ~behaved /\ last.res = Ok

\* C4: after deallocate_all the allocator owns no block (so none of the
\* blocks it handed out before).
C4_DeallocateAllDisowns ==
    last.op = "deallocate_all" => \A b \in Blocks : ~owns(World, b)

C4_TwoBlocksDropped == last.op = "deallocate_all" /\ last.size >= 2

\* C5: deallocate_all leaves a StackAllocator<N> as deallocating every live
\* block does: top == base, max_size() == N, live counter 0.
C5_DeallocateAllResets ==
    (kind = "stack" /\ last.op = "deallocate_all") =>
        /\ stk.stack_pointer_ = stk.begin
        /\ max_size(World) = stk.N
        /\ stk.allocated_ = 0

C5_StackDropped ==
    kind = "stack" /\ last.op = "deallocate_all" /\ last.size >= 1

\* C6: after a successful reallocate(b, n, a) returning r: r.size == n, the
\* allocator owns r, and the first min(b.size, n) bytes of r are those b held.
C6_ReallocateReturns ==
    (last.op = "reallocate" /\ last.res = Ok) =>
        /\ last.ret.size = last.size
        /\ owns(World, last.ret)
        /\ last.kept

C6_Resized ==
    last.op = "reallocate" /\ last.res = Ok /\ last.size > last.block.size

\* C7: an allocate or a reallocate that fails with OutOfMemory leaves the
\* allocator as it was, and the client's blocks with it.
C7_FailureChangesNothing ==
    [][(last'.op \in { "allocate", "reallocate" }
        /\ last'.res = BadAllocationException) =>
          UNCHANGED << stk, blocks_, heap, pools_, vec, live >>]_vars

C7_Failed ==
    /\ last.op \in { "allocate", "reallocate" }
    /\ last.res = BadAllocationException
    /\ Len(live) >= 1

\* the stack is as a new StackAllocator<N> is
AsFresh(s) == s = StackAllocator(s.begin, s.N)

\* C8: a fresh StackAllocator<N>, allocations of positive size, then the
\* blocks deallocated in reverse order: each deallocation with other blocks
\* still live raises max_size() by the size of the block, and after the last
\* one top == base, max_size() == N and the stack is as a fresh one.
C8_UnwindRaisesBySize ==
    [][/\ phase' = "unwind" =>
             max_size(World') = SzAdd(max_size(World), last'.block.size)
       /\ phase' = "unwound" =>
             /\ stk'.stack_pointer_ = stk'.begin
             /\ max_size(World') = stk'.N
             /\ AsFresh(stk')]_vars

\* C8 as it holds: the deallocation raises max_size() by the size of the
\* block when the block ends at the top pointer (no padding lies above it).
C8_UnwindOfTopRaisesBySize ==
    [][/\ (phase' = "unwind"
           /\ last'.block.memory + last'.block.size = stk.stack_pointer_) =>
             max_size(World') = SzAdd(max_size(World), last'.block.size)
       /\ phase' = "unwound" =>
             /\ stk'.stack_pointer_ = stk'.begin
             /\ max_size(World') = stk'.N
             /\ AsFresh(stk')]_vars

C8_Unwinding ==
    phase = "unwind" /\ last.block.memory = stk.stack_pointer_
    /\ Len(live) = 2

\* C9: on a StackAllocator, deallocating an owned block that does not end at
\* the top pointer leaves top and max_size() alone while another block stays
\* live; the deallocation that brings the live counter to zero resets top to
\* base and max_size() to N.
C9_DeallocateOffTop ==
    [][(kind = "stack" /\ last'.op = "deallocate" /\ last'.res = Ok
        /\ Len(live') < Len(live)) =>
          /\ (last'.block.memory + last'.block.size # stk.stack_pointer_
              /\ Len(live') >= 1) =>
                /\ stk'.stack_pointer_ = stk.stack_pointer_
                /\ max_size(World') = max_size(World)
          /\ stk.allocated_ = 1 =>
                /\ stk'.stack_pointer_ = stk'.begin
                /\ max_size(World') = stk'.N]_vars

C9_HoleLeft ==
    /\ kind = "stack" /\ last.op = "deallocate" /\ last.res = Ok
    /\ Len(live) >= 1
    /\ last.block.memory + last.block.size < stk.stack_pointer_
    /\ last.block.size > 0

\* C10: a successful GlobalAllocator.reallocate(b, n, _) returns the new
\* block: the allocator owns it, its size is n, and b is no longer owned
\* unless it is the block returned.
C10_GlobalReallocateReturns ==
    (kind = "global" /\ last.op = "reallocate" /\ last.res = Ok) =>
        /\ owns(World, last.ret)
        /\ last.ret.size = last.size
        /\ (last.block # last.ret => ~owns(World, last.block))

C10_GlobalResized ==
    kind = "global" /\ last.op = "reallocate" /\ last.res = Ok
    /\ last.size # last.block.size

\* C11: the registry of a GlobalAllocator names exactly the chunks that are
\* live at the system layer; once the client has returned every block the
\* registry is empty and no chunk is live.
C11_RegistryIsHeap ==
    kind = "global" =>
        /\ \A b \in blocks_ : ChunkAt(heap, b.memory) # {}
        /\ \A h \in heap : \E b \in blocks_ : b.memory = h.memory
        /\ live = << >> => (blocks_ = {} /\ heap = {})

C11_AllReturned ==
    kind = "global" /\ live = << >> /\ last.op = "deallocate"
    /\ last.res = Ok

\* C12: FallbackAllocator.allocate calls primary.allocate once, first; if it
\* succeeds the secondary is not called and the primary's block is returned;
\* if it fails with OutOfMemory, secondary.allocate is called once and its
\* outcome, block or OutOfMemory, is the outcome of the call.
C12_FallbackAllocateCalls ==
    (kind = "fallback" /\ last.op = "allocate") =>
        /\ Len(calls) >= 1
        /\ calls[1].who = "primary"
        /\ calls[1].res = Ok =>
              /\ Len(calls) = 1
              /\ last.res = Ok
              /\ last.ret = calls[1].block
        /\ calls[1].res # Ok =>
              /\ calls[1].res = BadAllocationException
              /\ Len(calls) = 2
              /\ calls[2].who = "secondary"
              /\ last.res = calls[2].res
              /\ last.ret = calls[2].block

C12_SecondaryServed ==
    /\ kind = "fallback" /\ last.op = "allocate" /\ last.res = Ok
    /\ Len(calls) = 2
    /\ Global_owns_impl(World, last.ret)

\* C13: in a FallbackAllocator<StackAllocator, GlobalAllocator> every live
\* block is owned by exactly one child, and owns(b) is primary.owns(b) or
\* secondary.owns(b).
C13_OneChildOwns ==
    kind = "fallback" =>
        \A i \in 1..Len(live) :
            /\ Stack_owns_locked(stk, live[i])
                   # Global_owns_impl(World, live[i])
            /\ owns(World, live[i])
                   = (Stack_owns_locked(stk, live[i])
                      \/ Global_owns_impl(World, live[i]))

C13_BothChildrenHold ==
    /\ kind = "fallback" /\ Len(live) = 2
    /\ Stack_owns_locked(stk, live[1])
    /\ Global_owns_impl(World, live[2])

\* the address lies on the side of the primary's arena
InPrimary(b) == b.memory < HeapBase

\* C14: a FallbackAllocator.reallocate(b, n, a) that succeeds returns a block
\* of size n; when the block returned comes from the other child than b,
\* the child that owned b no longer owns b and the other child owns the
\* block returned.
C14_FallbackReallocateMoves ==
    (kind = "fallback" /\ last.op = "reallocate" /\ last.res = Ok) =>
        /\ (InPrimary(last.block) /\ ~InPrimary(last.ret)) =>
              /\ last.ret.size = last.size
              /\ ~Stack_owns_locked(stk, last.block)
              /\ Global_owns_impl(World, last.ret)
        /\ (~InPrimary(last.block) /\ InPrimary(last.ret)) =>
              /\ last.ret.size = last.size
              /\ ~Global_owns_impl(World, last.block)
              /\ Stack_owns_locked(stk, last.ret)

C14_MovedToSecondary ==
    /\ kind = "fallback" /\ last.op = "reallocate" /\ last.res = Ok
    /\ InPrimary(last.block) /\ ~InPrimary(last.ret)

\* C15: in a SegregatingAllocator<N, Small, Large> every live block of size
\* <= N is owned by the small child and not by the large one, every live
\* block of size > N by the large child and not by the small one.
C15_BucketOwns ==
    kind = "segregating" =>
        \A i \in 1..Len(live) :
            IF live[i].size <= SegN
            THEN /\ Stack_owns_locked(stk, live[i])
                 /\ ~Global_owns_impl(World, live[i])
            ELSE /\ Global_owns_impl(World, live[i])
                 /\ ~Stack_owns_locked(stk, live[i])

C15_BothBucketsHold ==
    /\ kind = "segregating" /\ Len(live) = 2
    /\ live[1].size = 1 /\ Stack_owns_locked(stk, live[1])
    /\ live[2].size > SegN /\ Global_owns_impl(World, live[2])

\* the bucket of a size: TRUE for the small child
Little(size) == size <= SegN

\* C16: a SegregatingAllocator.reallocate(b, n, a) across the buckets does
\* not fail with NotOwned on a block the allocator owns; when it succeeds the
\* block returned has size n and holds the first min(b.size, n) bytes of b,
\* the source child no longer owns b and the destination child owns the
\* block returned.
C16_CrossBucketMoves ==
    (kind = "segregating" /\ last.op = "reallocate"
     /\ Little(last.block.size) # Little(last.size)) =>
        /\ last.res = NotOwnedException => ~owns(World, last.block)
        /\ last.res = Ok =>
              /\ last.ret.size = last.size
              /\ last.kept
              /\ ~owns(World, last.block)
              /\ owns(World, last.ret)

C16_BigToLittleAsked ==
    /\ kind = "segregating" /\ last.op = "reallocate"
    /\ ~Little(last.block.size) /\ Little(last.size)
    /\ last.size > 0

\* C17: SegregatingAllocator.max_size() is the maximum of small.max_size()
\* and large.max_size(), and owns(b) is true exactly when small.owns(b) or
\* large.owns(b) is.
C17_SegregatingUnion ==
    kind = "segregating" =>
        /\ max_size(World) = Max(Stack_max_size_locked(stk),
                                 Global_max_size_impl(World))
        /\ \A b \in Blocks :
              owns(World, b) = (Stack_owns_locked(stk, b)
                                \/ Global_owns_impl(World, b))

C17_SmallChildHolds ==
    kind = "segregating" /\ Len(live) >= 1 /\ stk.stack_pointer_ > stk.begin

\* C18: after every operation of a PoolAllocator the remaining capacity
\* (max_size) of pools[0] is at least that of every other pool.
C18_RootHasMostRoom ==
    (kind = "pool" /\ ~ub) =>
        \A i \in 2..Len(pools_) :
            Stack_max_size_locked(pools_[1])
                >= Stack_max_size_locked(pools_[i])

C18_TwoPoolsDiffer ==
    /\ kind = "pool" /\ ~ub /\ Len(pools_) = 2
    /\ Stack_max_size_locked(pools_[1]) > Stack_max_size_locked(pools_[2])

\* the pool can serve allocate(size, alignment)
CanServe(pool, size, alignment) ==
    Stack_allocate_locked(pool, size, alignment).res = Ok

\* the positions of the pools whose arena holds the block
Serving(pools, block) ==
    { i \in 1..Len(pools) :
          block.memory >= pools[i].begin
          /\ block.memory <= pools[i].begin + pools[i].N }

\* C19: PoolAllocator.allocate serves a request from an existing pool when
\* one of them can serve it, and then from a pool with the most remaining
\* capacity; it creates a pool only when no existing pool can serve the
\* request.
C19_ServedFromRoomiestPool ==
    [][(kind = "pool" /\ last'.op = "allocate" /\ last'.res = Ok
        /\ Len(live') > Len(live)) =>
          /\ (\E i \in 1..Len(pools_) :
                 CanServe(pools_[i], last'.size, last'.alignment)) =>
                /\ Len(pools_') = Len(pools_)
                /\ \A i \in Serving(pools_, last'.ret) :
                      \A j \in 1..Len(pools_) :
                          Stack_max_size_locked(pools_[i])
                              >= Stack_max_size_locked(pools_[j])
          /\ Len(pools_') > Len(pools_) =>
                \A i \in 1..Len(pools_) :
                    ~CanServe(pools_[i], last'.size, last'.alignment)]_vars

C19_ServedFromExisting ==
    /\ kind = "pool" /\ last.op = "allocate" /\ last.res = Ok
    /\ Len(pools_) = 2 /\ Len(live) = 1 /\ last.size > 0

\* C20: PoolAllocator.allocate(size, a) fails with OutOfMemory, the backing
\* allocator not asked for a pool, when size > PoolSize; for size <= PoolSize
\* and every alignment it returns a block unless a call of the backing
\* allocator failed with OutOfMemory, and then fails with OutOfMemory.
C20_PoolAllocateFails ==
    (kind = "pool" /\ last.op = "allocate") =>
        /\ last.size > PoolSize =>
              (last.res = BadAllocationException /\ calls = << >>)
        /\ (last.size <= PoolSize /\ last.res # Ok) =>
              /\ last.res = BadAllocationException
              /\ \E k \in 1..Len(calls) :
                    calls[k].res = BadAllocationException

C20_TooLargeRefused ==
    /\ kind = "pool" /\ last.op = "allocate" /\ last.size > PoolSize
    /\ last.res = BadAllocationException /\ Len(pools_) >= 1

\* the max-heap order over the remaining capacity holds for the vector
HeapOrdered(pools) ==
    \A i \in 2..Len(pools) :
        ~PoolAllocatorComparator(pools[parent(i)], pools[i])

\* what the caller of an allocate sees of its outcome r
Served(r) == << r.res, r.block >>

\* C21: after PoolAllocator.deallocate_all() the remaining capacity
\* (max_size) of every pool is PoolSize, the heap order holds and every pool
\* accepts allocations as a pool just created does.
C21_DeallocateAllRefreshesPools ==
    (kind = "pool" /\ last.op = "deallocate_all") =>
        /\ \A i \in 1..Len(pools_) :
              /\ Stack_max_size_locked(pools_[i]) = PoolSize
              /\ \A size \in 0..PoolSize, alignment \in Alignments :
                    Served(Stack_allocate_locked(pools_[i], size, alignment))
                    = Served(Stack_allocate_locked(
                                 StackAllocator(pools_[i].begin, PoolSize),
                                 size, alignment))
        /\ HeapOrdered(pools_)

C21_PoolsDropped ==
    /\ kind = "pool" /\ last.op = "deallocate_all" /\ last.size >= 1
    /\ Len(pools_) = 2

\* the pool of the vector that stands at the address begin
PoolOf(pools, begin) == pools[PoolAt(pools, begin)]

\* C22: PoolAllocator.reallocate(b, n, a) fails with NotOwned when no pool
\* owns b; when the reallocate of the owning pool fails with OutOfMemory and
\* the call returns, it has asked allocate for a block of size n, the block
\* returned holds the contents of b, b is deallocated from the pool that
\* owned it, and the max-heap order holds for the whole vector of pools.
C22_PoolReallocateElsewhere ==
    [][(kind = "pool" /\ last'.op = "reallocate" /\ HeapOrdered(pools_)) =>
          /\ (last'.res \in { Ok, NotOwnedException }) =>
                (last'.res = NotOwnedException
                    <=> ~Pool_owns_impl(World, last'.block))
          /\ (last'.res = Ok /\ calls'[1].res = BadAllocationException) =>
                /\ Len(calls') = 2
                /\ calls'[2].who = "allocate"
                /\ last'.ret = calls'[2].block
                /\ last'.ret.size = last'.size
                /\ last'.kept
                /\ ~ub'
                /\ PoolOf(pools_', pools_[get_owner_iter(
                                              pools_, last'.block)].begin)
                   = Stack_deallocate_locked(
                         pools_[get_owner_iter(pools_, last'.block)],
                         last'.block).s
                /\ HeapOrdered(pools_')]_vars

C22_MovedToOtherPool ==
    /\ kind = "pool" /\ last.op = "reallocate" /\ last.res = Ok
    /\ Len(calls) = 2 /\ calls[1].res = BadAllocationException

\* the step of thread t has the outcome r
Agrees(t, r) ==
    /\ r.feasible
    /\ stk' = r.W.stk
    /\ blocks_' = r.W.blocks_
    /\ heap' = r.W.heap
    /\ req'[t].res = r.res
    /\ req'[t].ret = r.ret
    /\ req'[t].answer = r.answer

\* C23: threads call allocate, reallocate, deallocate, owns and max_size on
\* one StackAllocator or GlobalAllocator with a real mutex.  Every call takes
\* effect in one step, as its handler run alone on the allocator as it is at
\* that step, and returns what that run returns (the calls are as in a
\* sequential order); the top pointer, max_size_, the live counter and the
\* registry change only in a step of the thread that holds the mutex.
C23_CallsLinearize ==
    [][/\ \A t \in Threads :
             (pc[t] = "write" /\ pc'[t] = "unlock") =>
                 \E a \in { 0 } \cup ReallocChoices(req[t].block),
                    rz \in BOOLEAN :
                     Agrees(t, Handler(World, req[t], a, rz))
       /\ (stk' # stk \/ blocks_' # blocks_) =>
             \E t \in Threads : mutex_ = t /\ pc[t] = "write"]_vars

C23_Contended ==
    \E t \in Threads, u \in Threads :
        /\ pc[t] = "unlock" /\ req[t].op = "reallocate" /\ req[t].res = Ok
        /\ pc[u] = "lock" /\ req[u].op \in { "allocate", "deallocate" }

\* C24: every operation of a composite allocator runs under the lock of the
\* composite: while a thread stands between the ownership check on a child
\* and the call of that child that follows it, no other thread makes a call
\* of a child in an operation on the same FallbackAllocator.
C24_NoCallBetweenCheckAndCall ==
    [][\A t \in Threads, u \in Threads :
           (t # u /\ pc[t] \in { "primary.deallocate", "secondary.deallocate" }
            /\ pc[u] # "idle") => pc'[u] = pc[u]]_vars

C24_Checked ==
    /\ kind = "fallback"
    /\ pc[1] = "primary.deallocate"
    /\ pc[2] = "idle" /\ Len(live) = 1

\* C25: with a real mutex that is not recursive no operation of an allocator
\* deadlocks: a thread never asks for an instance mutex that it holds
\* (PoolAllocator.reallocate on the path where the owning pool reports
\* OutOfMemory included).
C25_NoLockOfHeldMutex ==
    \A t \in Threads : pc[t] = "lock" => mutex_ # t

C25_OwnerRefused ==
    \E t \in Threads :
        /\ kind = "pool" /\ mutex_ = t /\ pc[t] = "write"
        /\ CallsAllocate(World, req[t])

\* C26: the move assignment A = std::move(B) of GlobalAllocators, A and B
\* distinct, touches a registry only with both instance mutexes held, and
\* after it A owns exactly the blocks that B owned before and B owns none;
\* the move assignment of an allocator to itself changes neither registry
\* and takes no mutex.
C26_MoveAssignTransfers ==
    [][/\ (pc[1] = "write" /\ pc'[1] = "unlock") =>
             /\ mutex_ = 1 /\ other.mutex_ = 1
             /\ (other.dst = "A" =>
                    blocks_' = other.blocks_ /\ other'.blocks_ = {})
             /\ (other.dst = "B" =>
                    other'.blocks_ = blocks_ /\ blocks_' = {})
       /\ (pc[1] # "idle"
           /\ (blocks_' # blocks_ \/ other'.blocks_ # other.blocks_)) =>
             (mutex_ = 1 /\ other.mutex_ = 1)
       /\ (pc[1] # "idle" /\ other.dst = other.src) =>
             /\ blocks_' = blocks_ /\ other'.blocks_ = other.blocks_
             /\ mutex_' = mutex_ /\ other'.mutex_ = other.mutex_
             /\ pc'[1] = "idle"]_vars

C26_Moved ==
    /\ pc[1] = "unlock" /\ other.dst = "A" /\ other.src = "B"
    /\ Cardinality(blocks_) = 2 /\ other.blocks_ = {}

\* the elements added to the heap
Added == { fheap.added[i] : i \in 1..Len(fheap.added) }

\* C27: after any sequence of push, emplace and insert calls on an empty
\* FibonacciHeap, size() is the number of elements added, empty() is true
\* exactly when that number is 0, and top() is an element e added such that
\* cmp(e, x) is false for every element x added.
C27_SizeEmptyTop ==
    /\ Fib_size(fheap) = Len(fheap.added)
    /\ Fib_empty(fheap) <=> Len(fheap.added) = 0
    /\ Len(fheap.added) > 0 =>
           /\ fheap.root_ # nullptr
           /\ Fib_top(fheap) \in Added
           /\ \A x \in Added :
                  ~invoke(fheap.comparator_, Fib_top(fheap), x)

C27_MinOnTopOfFullHeap ==
    /\ fheap.comparator_ = "greater"
    /\ Fib_size(fheap) = HeapMax
    /\ fheap.added[1] = MaxVal
    /\ fheap.added[HeapMax] = MaxVal
    /\ Fib_top(fheap) = 0

\* C28: on a FibonacciHeap built by pushes, in any order and with
\* duplicates, the walk from begin() stands on no node twice, and when it
\* reaches end() it has stood on every node, each node holding the element
\* added with it.
C28_WalkVisitsEachOnce ==
    (iter.begun /\ Len(fheap.added) > 0) =>
        /\ \A i, j \in 1..Len(iter.visited) :
               i # j => iter.visited[i] # iter.visited[j]
        /\ \A i \in 1..Len(iter.visited) :
               iter.visited[i] \in 1..Len(fheap.added)
        /\ \A n \in 1..Len(fheap.added) :
               fheap.node[n].data = fheap.added[n]
        /\ iter.current_ = nullptr => Len(iter.visited) = Len(fheap.added)

C28_WalkedFullHeap ==
    /\ iter.begun
    /\ iter.current_ = nullptr
    /\ Len(iter.visited) = HeapMax
    /\ fheap.added = << 1, 0, 1, 2, 0 >>

\* the bytes that bring the top pointer of s up to a multiple of alignment
Padding(s, alignment) == aligned_offset(s.stack_pointer_, alignment)

\* the outcome of allocate(size, alignment) on the stack s that the
\* specification describes
AllocateAsSpecified(s, size, alignment) ==
    IF size + Padding(s, alignment) > s.max_size_
    THEN [res |-> BadAllocationException, s |-> s, block |-> NullBlock]
    ELSE [res |-> Ok,
          s |-> [s EXCEPT
                    !.stack_pointer_ = @ + Padding(s, alignment) + size,
                    !.max_size_ = @ - (Padding(s, alignment) + size),
                    !.allocated_ = @ + 1],
          block |-> MemoryBlock(s.stack_pointer_ + Padding(s, alignment),
                                size)]

\* C29: StackAllocator<N>.allocate(size, a) fails with OutOfMemory exactly
\* when size + padding > remaining, padding being the bytes that bring the
\* top pointer up to a multiple of a; otherwise it advances the top by
\* padding + size, lowers remaining by padding + size, counts one more live
\* block and returns the block (top + padding, size).
C29_StackAllocateOutcome ==
    (kind = "stack" /\ Running) =>
        \A size \in SizeChoices, alignment \in AlignChoices :
            Stack_allocate_locked(stk, size, alignment)
                = AllocateAsSpecified(stk, size, alignment)

C29_AllocatedWithPadding ==
    /\ kind = "stack" /\ Running
    /\ last.op = "allocate" /\ last.res = Ok
    /\ Len(live) = 2
    /\ last.ret.memory > live[1].memory + live[1].size

\* the outcome of reallocate(block, size, alignment) on the stack s that the
\* specification describes, the block ending at the top pointer
GrowAsSpecified(s, block, size) ==
    IF size > block.size /\ size - block.size > s.max_size_
    THEN [res |-> BadAllocationException, s |-> s, block |-> NullBlock,
          cp |-> NoCopy]
    ELSE [res |-> Ok,
          s |-> [s EXCEPT
                    !.stack_pointer_ = block.memory + size,
                    !.max_size_ = @ + block.size - size],
          block |-> MemoryBlock(block.memory, size), cp |-> NoCopy]

\* the block not at the top: a fresh block, the copy, then the deallocate
MoveAsSpecified(a, s, block, size) ==
    IF a.res # Ok
    THEN [res |-> a.res, s |-> s, block |-> NullBlock, cp |-> NoCopy]
    ELSE [res |-> Ok, s |-> Stack_deallocate_locked(a.s, block).s,
          block |-> a.block,
          cp |-> [dst |-> a.block.memory, src |-> block.memory,
                  n |-> Min(block.size, size)]]

ReallocateAsSpecified(s, block, size, alignment) ==
    IF ~Stack_owns_locked(s, block)
    THEN [res |-> NotOwnedException, s |-> s, block |-> NullBlock,
          cp |-> NoCopy]
    ELSE IF block.memory + block.size = s.stack_pointer_
    THEN GrowAsSpecified(s, block, size)
    ELSE MoveAsSpecified(Stack_allocate_locked(s, size, alignment), s,
                         block, size)

\* C30: StackAllocator.reallocate(b, n, a) on an owned block that ends at
\* the top pointer keeps the address, moves top and remaining by
\* |n - b.size| and keeps the live counter, and fails with OutOfMemory,
\* nothing changed, when n - b.size exceeds remaining; on an owned block
\* elsewhere it allocates a fresh block, copies min(b.size, n) bytes and
\* deallocates b; on a block it does not own it fails with NotOwned.
C30_StackReallocateOutcome ==
    (kind = "stack" /\ Running) =>
        \A i \in 1..Len(live), size \in SizeChoices,
           alignment \in AlignChoices :
            Stack_reallocate_impl(stk, live[i], size, alignment)
                = ReallocateAsSpecified(stk, live[i], size, alignment)

C30_GrownAtTop ==
    /\ kind = "stack" /\ Running
    /\ last.op = "reallocate" /\ last.res = Ok
    /\ last.ret.memory = last.block.memory
    /\ last.ret.size > last.block.size
    /\ stk.stack_pointer_ = last.ret.memory + last.ret.size

\* C31: in every reachable state of a StackAllocator the live counter is 0
\* if and only if the top pointer is at base, and the top pointer moves
\* down only by the pop of the block that ends at the top or by a reset to
\* base.
C31_CounterZeroIffTopAtBase ==
    /\ [](kind = "stack" =>
             (stk.allocated_ = 0 <=> stk.stack_pointer_ = stk.begin))
    /\ [][(kind = "stack" /\ stk'.stack_pointer_ < stk.stack_pointer_) =>
             \/ stk'.stack_pointer_ = stk'.begin
             \/ /\ last'.op = "deallocate"
                /\ last'.block.memory + last'.block.size
                       = stk.stack_pointer_
                /\ stk'.stack_pointer_ = last'.block.memory]_vars

C31_ResetByLastDeallocate ==
    /\ kind = "stack" /\ last.op = "deallocate" /\ last.res = Ok
    /\ last.block.size > 0
    /\ stk.allocated_ = 0 /\ stk.stack_pointer_ = stk.begin

\* C32: in every reachable state of a StackAllocator<N> the top pointer is
\* within [base, base + N] and max_size() within [0, N]: no operation moves
\* the top behind the end of the buffer or makes the remaining counter wrap.
C32_TopAndRemainingInRange ==
    kind = "stack" =>
        /\ stk.stack_pointer_ >= stk.begin
        /\ stk.stack_pointer_ <= stk.begin + stk.N
        /\ Stack_max_size_locked(stk) >= 0
        /\ Stack_max_size_locked(stk) <= stk.N

C32_StackFull ==
    /\ kind = "stack"
    /\ stk.stack_pointer_ = stk.begin + stk.N
    /\ Stack_max_size_locked(stk) = 0
    /\ Len(live) = MaxLive

\* C33: in every reachable state of a StackAllocator<N>, max_size() is N
\* minus the distance from base to the top pointer.
C33_RemainingIsRoomAboveTop ==
    kind = "stack" =>
        Stack_max_size_locked(stk)
            = stk.N - (stk.stack_pointer_ - stk.begin)

C33_TopAboveBase ==
    /\ kind = "stack"
    /\ stk.stack_pointer_ > stk.begin
    /\ Stack_max_size_locked(stk)
           = stk.N - (stk.stack_pointer_ - stk.begin)
    /\ last.op = "reallocate" /\ last.res = Ok

\* the addresses that the call with the store W at its end has written
CellsWritten(W) == { m \in DOMAIN W.mem : W.mem[m] # m }

\* C34: a reallocate of a FallbackAllocator, SegregatingAllocator or
\* PoolAllocator that moves a block b into a fresh block of size n copies at
\* most min(b.size, n) bytes: it writes nothing outside the first
\* min(b.size, n) bytes of the new block.
C34_MoveCopiesWithinNewBlock ==
    (kind \in { "fallback", "segregating", "pool" } /\ Running) =>
        \A i \in 1..Len(live), size \in SizeChoices,
           alignment \in AlignChoices :
        \A a \in ReallocChoices(live[i]) :
        \A a2 \in SecondChoices({ a }),
           rz \in (IF size = 0 THEN ReallocFrees ELSE { FALSE }) :
            (/\ reallocate(World, live[i], size, alignment, a, a2, rz).res
                    = Ok
             /\ reallocate(World, live[i], size, alignment, a, a2,
                           rz).feasible
             /\ reallocate(World, live[i], size, alignment, a, a2,
                           rz).block.memory # live[i].memory) =>
                \A m \in CellsWritten(reallocate(World, live[i], size, alignment,
                                            a, a2, rz).W) :
                    /\ m >= reallocate(World, live[i], size, alignment, a,
                                       a2, rz).block.memory
                    /\ m < reallocate(World, live[i], size, alignment, a,
                                      a2, rz).block.memory
                               + Min(live[i].size, size)

C34_ShrunkIntoOtherChild ==
    /\ kind = "fallback" /\ last.op = "reallocate" /\ last.res = Ok
    /\ ~InPrimary(last.block) /\ InPrimary(last.ret)
    /\ last.ret.size < last.block.size

\* the pool vector refers to the block of the backing allocator: it is the
\* storage of the vector or the block of one of its pools
Referenced(pools, storage, b) ==
    \/ storage.cap > 0 /\ b.memory = storage.memory
    \/ \E k \in 1..Len(pools) : pools[k].begin = b.memory

\* C35: when PoolAllocator.allocate or reallocate fails with OutOfMemory the
\* pool vector is as before and every block that the backing allocator
\* holds is referenced by the pool vector: the block taken for a new pool is
\* registered in the vector or given back before the error propagates.
C35_FailureLeaksNoPool ==
    [][(kind = "pool" /\ last'.op \in { "allocate", "reallocate" }
        /\ last'.res = BadAllocationException) =>
          /\ pools_' = pools_
          /\ vec' = vec
          /\ \A b \in blocks_' : Referenced(pools_', vec', b)]_vars

C35_RefusedWithPools ==
    /\ kind = "pool" /\ last.op = "allocate"
    /\ last.res = BadAllocationException
    /\ Len(pools_) >= 1
    /\ \E k \in 1..Len(calls) : calls[k].res = BadAllocationException

\* position i of the vector is position j or above it on the way to the root
RECURSIVE OnPathToRoot(_, _)
OnPathToRoot(i, j) ==
    IF j < i THEN FALSE ELSE IF i = j THEN TRUE
    ELSE OnPathToRoot(i, parent(j))

\* the positions of the vector after the call that hold another pool than
\* before it
Displaced(before, after) ==
    { k \in 1..Len(after) :
        k > Len(before) \/ after[k].begin # before[k].begin }

C37_MoveAssignLeaksNothing ==
    [][(pc[1] = "write" /\ pc'[1] = "unlock") =>
          \A b \in Registry(other.dst) :
             \/ ChunkAt(heap', b.memory) = {}
             \/ b \in blocks_'
             \/ b \in other'.blocks_]_vars

\* the assignment is about to overwrite a registry that holds a block
C37_TargetHoldsBlock ==
    /\ pc[1] = "write" /\ other.dst = "A" /\ other.src = "B"
    /\ Cardinality(blocks_) = 1 /\ Cardinality(other.blocks_) = 1

\* the elements of a vector
Elements(data) == { data[i] : i \in DOMAIN data }

\* C38: the FlatSet is the set of the keys inserted or emplaced and not
\* erased since.  count(v) is 1 when v is in that set and 0 otherwise;
\* insert(v) and emplace(v) add v and report true exactly when v was absent;
\* erase(k) removes only k, returns 1 when k was present, and returns 0 and
\* leaves the vector alone when k was absent; the vector is sorted and has
\* no duplicates.
C38_FlatSetIsSet ==
    /\ \A i \in 1..(Len(fset.data_) - 1) :
          invoke(fset.comparator_, fset.data_[i], fset.data_[i + 1])
    /\ \A v \in SetKeys :
          /\ FlatSet_count(fset, v) = IF v \in fset.keys THEN 1 ELSE 0
          /\ FlatSet_insert(fset, v).second = (v \notin fset.keys)
          /\ Elements(FlatSet_insert(fset, v).data_) = fset.keys \cup { v }
          /\ FlatSet_emplace(fset, v).second = (v \notin fset.keys)
          /\ Elements(FlatSet_emplace(fset, v).data_) = fset.keys \cup { v }
          /\ FlatSet_erase(fset, v).ret = IF v \in fset.keys THEN 1 ELSE 0
          /\ Elements(FlatSet_erase(fset, v).data_) = fset.keys \ { v }
          /\ v \notin fset.keys =>
                FlatSet_erase(fset, v).data_ = fset.data_

\* insert has refused a key that the set does not hold
C38_InsertRefusedNewKey ==
    /\ fset.call.op = "insert" /\ fset.call.ret = 0
    /\ fset.call.key \notin Elements(fset.data_)
    /\ fset.data_ # << >>

====
